---- MODULE Spec2Model ----
(***************************************************************************)
(* State-machine model of addons/stock/models/stock_inventory.py:         *)
(* the stock.inventory aggregate (Inventory), its count lines             *)
(* (InventoryLine), the stock moves it generates and the quant ledger it  *)
(* reads.  Records are kept in tables (sets of records carrying an id),   *)
(* the way the ORM keeps them; every handler is one atomic transaction.   *)
(***************************************************************************)
EXTENDS Integers, Sequences, FiniteSets, TLC

VARIABLES
    inventories,          \* stock.inventory table: id -> record
    lines,                \* stock.inventory.line table
    moves,                \* stock.move rows linked to an inventory
    quants,               \* stock.quant table (the ledger)
    last_inventory_date,  \* stock.location.last_inventory_date
    next_inventory_date,  \* stock.location.next_inventory_date, where one is set
    runs,                 \* the detector runs in progress: what each has read
    now,                  \* the current day
    last                  \* the last call made and what it returned

vars == <<inventories, lines, moves, quants, last_inventory_date, next_inventory_date,
          runs, now, last>>

\* ------------------------------------------------------------------ bounds

\* Stored quantities are multiples of 1/Precision of a unit.
Precision == 3
\* User-created lines per inventory (lines made by start are not capped).
MaxLines == 2
\* Quant records in an initial ledger.
MaxQuants == 2
\* the days the clock runs through
MaxDay == 2
\* the inventories the scheduler goes on adding to
MaxInventories == 2

\* ------------------------------------------------------- catalogue (static)

\* The ORM's empty many2one.
False == "False"

One == Precision
\* uom.rounding of the products' unit of measure: whole units.
Rounding == One

Products == {"pN", "pS"}
tracking == [p \in Products |-> IF p = "pS" THEN "serial" ELSE "none"]
active == [p \in Products |-> TRUE]

Companies == {"c1", "c2"}
\* Company c1 has warehouse W1: WH is its view location, S1 its stock location,
\* B1 a shelf of S1.  Company c2 has warehouse W2: view location WH2, stock S2.
Locations == {"WH", "S1", "B1", "WH2", "S2"}
parent ==
    [l \in Locations |-> CASE l \in {"WH", "WH2"} -> False
                           [] l = "S1" -> "WH" [] l = "B1" -> "S1" [] l = "S2" -> "WH2"]
usage == [l \in Locations |-> IF l \in {"WH", "WH2"} THEN "view" ELSE "internal"]
company == [l \in Locations |-> IF l \in {"WH2", "S2"} THEN "c2" ELSE "c1"]
lot_stock_id == [c \in Companies |-> IF c = "c1" THEN {"S1"} ELSE {"S2"}]
Warehouses == {"W1", "W2"}
view_location_id == [w \in Warehouses |-> IF w = "W1" THEN "WH" ELSE "WH2"]
warehouse_company == [w \in Warehouses |-> IF w = "W1" THEN "c1" ELSE "c2"]
\* property_stock_inventory: the virtual inventory-adjustment location.
Virtual == "VIRT"

Lots == {"lot1", "lot2"}
Packages == {"pk1"}
Partners == {"o1"}

\* The detector runs that may be in progress at once.
Runners == {"r1", "r2"}

\* a runner that is not running the detector
Idle == [at |-> "idle"]

\* ----------------------------------------------------------------- helpers

Abs(n) == IF n < 0 THEN -n ELSE n

RECURSIVE SumQuantity(_)
\* sum(quants.mapped('quantity'))
SumQuantity(S) ==
    IF S = {} THEN 0
    ELSE LET x == CHOOSE y \in S : TRUE IN x.quantity + SumQuantity(S \ {x})

RECURSIVE SetToSeq(_)
SetToSeq(S) ==
    IF S = {} THEN <<>>
    ELSE LET x == CHOOSE y \in S : TRUE IN <<x>> \o SetToSeq(S \ {x})

\* The id the table's sequence hands out (the lowest unused one).
NewId(table) ==
    LET used == {r.id : r \in table}
    IN CHOOSE n \in 1..(Cardinality(used) + 1) :
           n \notin used /\ \A m \in 1..(n - 1) : m \in used

RECURSIVE Insert(_, _)
\* models.Model.create: one new row per dict of vals_list, in order
Insert(table, vals_list) ==
    IF vals_list = <<>> THEN table
    ELSE Insert(table \cup {[id |-> NewId(table)] @@ Head(vals_list)}, Tail(vals_list))

\* tools.float_round, float_is_zero, float_compare at precision_rounding=Rounding
float_round(v) ==
    LET q == (2 * Abs(v) + Rounding) \div (2 * Rounding)
    IN IF v < 0 THEN -(q * Rounding) ELSE q * Rounding

float_is_zero(v) == Abs(float_round(v)) < Rounding

float_compare(a, b) ==
    LET delta == float_round(a) - float_round(b)
    IN IF float_is_zero(delta) THEN 0 ELSE IF delta < 0 THEN -1 ELSE 1

RECURSIVE ancestors(_)
\* the ids of parent_path above the location itself: parent_path.split('/')[:-2]
ancestors(l) == IF parent[l] = False THEN {} ELSE {parent[l]} \cup ancestors(parent[l])

\* the domain ('id', 'child_of', ids)
child_of(ids) == {l \in Locations : l \in ids \/ ancestors(l) \cap ids # {}}

\* The 5-tuple a quant is grouped by and a line is keyed by.
Key(p, l, lot, pack, owner) ==
    [product_id |-> p, location_id |-> l, prod_lot_id |-> lot,
     package_id |-> pack, partner_id |-> owner]

QuantKey(q) == Key(q.product_id, q.location_id, q.lot_id, q.package_id, q.owner_id)
LineKey(l) == Key(l.product_id, l.location_id, l.prod_lot_id, l.package_id, l.partner_id)

\* stock.quant._gather(..., strict=True): the quants of exactly this key
_gather(k) == {q \in quants : QuantKey(q) = k}

\* product.product.get_theoretical_quantity: the live quantity of one key
get_theoretical_quantity(k) == SumQuantity(_gather(k))

line_ids(i) == {l \in lines : l.inventory_id = i}
move_ids(i) == {m \in moves : m.inventory_id = i}

\* InventoryLine._compute_difference
difference_qty(line) == line.product_qty - line.theoretical_qty

\* ------------------------------------------------------- Quantity Snapshot

\* Inventory._get_quantities: dict key -> summed quantity
_get_quantities(i) ==
    LET inv == inventories[i]
        locations_ids ==
            IF inv.location_ids # {} THEN child_of(inv.location_ids)
            ELSE {l \in Locations : company[l] = inv.company_id
                                    /\ usage[l] \in {"internal", "transit"}}
        domain(q) ==
            /\ company[q.location_id] = inv.company_id
            /\ q.location_id \in locations_ids
            /\ (inv.prefill_counted_quantity = "zero" => active[q.product_id])
            /\ (inv.lot_ids # {} => q.lot_id \in inv.lot_ids)
            /\ IF inv.is_conflict_inventory /\ inv.lot_ids = {}
               THEN q.quantity < 0
               ELSE q.quantity # 0
            /\ (inv.product_ids # {} => q.product_id \in inv.product_ids)
        found == {q \in quants : domain(q)}
        groups == {QuantKey(q) : q \in found}
    IN [k \in groups |-> SumQuantity({q \in found : QuantKey(q) = k})]

\* Inventory._get_exhausted_inventory_lines_vals
_get_exhausted_inventory_lines_vals(i, non_exhausted_set) ==
    LET inv == inventories[i]
        product_ids == IF inv.product_ids # {} THEN inv.product_ids
                       ELSE {p \in Products : active[p]}
        location_ids == IF inv.location_ids # {} THEN inv.location_ids
                        ELSE lot_stock_id[inv.company_id]
        todo == {pl \in product_ids \X location_ids : pl \notin non_exhausted_set}
    IN [n \in 1..Cardinality(todo) |->
           LET pl == SetToSeq(todo)[n]
           IN [inventory_id |-> i, product_id |-> pl[1], location_id |-> pl[2],
               prod_lot_id |-> False, package_id |-> False, partner_id |-> False,
               product_qty |-> 0, theoretical_qty |-> 0]]

\* _get_inventory_lines_values with the prefill test the wrong way round
_get_inventory_lines_values_swapped(i) ==
    LET inv == inventories[i]
        quants_groups == _get_quantities(i)
        keys == SetToSeq(DOMAIN quants_groups)
        vals == [n \in 1..Len(keys) |->
                    LET k == keys[n]
                        quantity == quants_groups[k]
                    IN [inventory_id |-> i,
                        product_qty |-> IF inv.prefill_counted_quantity = "zero"
                                        THEN quantity ELSE 0,
                        theoretical_qty |-> quantity,
                        prod_lot_id |-> k.prod_lot_id, partner_id |-> k.partner_id,
                        product_id |-> k.product_id, location_id |-> k.location_id,
                        package_id |-> k.package_id]]
    IN IF inv.exhausted
       THEN vals \o _get_exhausted_inventory_lines_vals(
                        i, {<<vals[n].product_id, vals[n].location_id>> : n \in 1..Len(vals)})
       ELSE vals

\* Inventory._get_inventory_lines_values
_get_inventory_lines_values(i) ==
    LET inv == inventories[i]
        quants_groups == _get_quantities(i)
        keys == SetToSeq(DOMAIN quants_groups)
        vals == [n \in 1..Len(keys) |->
                    LET k == keys[n]
                        quantity == quants_groups[k]
                    IN [inventory_id |-> i,
                        product_qty |-> IF inv.prefill_counted_quantity = "zero"
                                        THEN 0 ELSE quantity,
                        theoretical_qty |-> quantity,
                        prod_lot_id |-> k.prod_lot_id, partner_id |-> k.partner_id,
                        product_id |-> k.product_id, location_id |-> k.location_id,
                        package_id |-> k.package_id]]
    IN IF inv.exhausted
       THEN vals \o _get_exhausted_inventory_lines_vals(
                        i, {<<vals[n].product_id, vals[n].location_id>> : n \in 1..Len(vals)})
       ELSE vals

\* ------------------------------------------------------ Inventory Line Engine

\* The outcome of a call: what it returned or that it raised.  arg is the caller's
\* manager role for action_validate and the state it found for action_cancel_draft.
Called(op, i, res, arg) == [op |-> op, inv |-> i, res |-> res, arg |-> arg]

\* A raised UserError: the transaction is rolled back.
Raise(op, i, arg) ==
    /\ last' = Called(op, i, "error", arg)
    /\ UNCHANGED <<inventories, lines, moves, quants, last_inventory_date, next_inventory_date, runs, now>>

\* _check_no_duplicate_line comparing the way SQL's "=" does: an empty lot,
\* package or owner equals nothing, not even another empty one
_check_no_duplicate_line_null(table, checked) ==
    \A line \in checked :
        LET eq(a, b) == a # False /\ a = b
            existings == {o \in table :
                             /\ o.id # line.id
                             /\ o.product_id = line.product_id
                             /\ o.location_id = line.location_id
                             /\ eq(o.partner_id, line.partner_id)
                             /\ eq(o.package_id, line.package_id)
                             /\ eq(o.prod_lot_id, line.prod_lot_id)
                             /\ o.inventory_id = line.inventory_id}
        IN existings = {}

\* InventoryLine._check_no_duplicate_line over `checked`, the table being `table`:
\* TRUE when no UserError is raised
_check_no_duplicate_line(table, checked) ==
    \A line \in checked :
        LET existings == {o \in table :
                             /\ o.id # line.id
                             /\ o.product_id = line.product_id
                             /\ o.location_id = line.location_id
                             /\ o.partner_id = line.partner_id
                             /\ o.package_id = line.package_id
                             /\ o.prod_lot_id = line.prod_lot_id
                             /\ o.inventory_id = line.inventory_id}
        IN existings = {}

\* create computing the theoretical quantity itself whatever the values hold
create_recomputes(vals_list) ==
    LET complete(values) ==
            [theoretical_qty |->
                get_theoretical_quantity(Key(values.product_id,
                    values.location_id, values.prod_lot_id,
                    values.package_id, values.partner_id))] @@ values
    IN Insert(lines, [n \in 1..Len(vals_list) |-> complete(vals_list[n])])

\* InventoryLine.create up to super().create: the table with the new rows
create(vals_list) ==
    LET complete(values) ==
            IF "theoretical_qty" \notin DOMAIN values
            THEN values @@ [theoretical_qty |->
                               get_theoretical_quantity(Key(values.product_id,
                                   values.location_id, values.prod_lot_id,
                                   values.package_id, values.partner_id))]
            ELSE values
    IN Insert(lines, [n \in 1..Len(vals_list) |-> complete(vals_list[n])])

\* InventoryLine.write up to super().write: the table with `vals` written on `ls`
write(ls, vals) == {IF l \in ls THEN vals @@ l ELSE l : l \in lines}

\* InventoryLine._get_move_values
_get_move_values(line, qty, location_id, location_dest_id, out) ==
    [product_id |-> line.product_id,
     product_uom_qty |-> qty,
     inventory_id |-> line.inventory_id,
     state |-> "confirmed",
     restrict_partner_id |-> line.partner_id,
     location_id |-> location_id,
     location_dest_id |-> location_dest_id,
     lot_id |-> line.prod_lot_id,
     package_id |-> IF out THEN line.package_id ELSE False,
     result_package_id |-> IF ~out THEN line.package_id ELSE False]

RECURSIVE _generate_moves_no_abs(_)
\* _generate_moves without abs() on a negative difference
_generate_moves_no_abs(ls) ==
    IF ls = <<>> THEN <<>>
    ELSE LET line == Head(ls)
             vals == IF difference_qty(line) > 0
                     THEN _get_move_values(line, difference_qty(line),
                                           Virtual, line.location_id, FALSE)
                     ELSE _get_move_values(line, difference_qty(line),
                                           line.location_id, Virtual, TRUE)
         IN IF float_is_zero(difference_qty(line))
            THEN _generate_moves_no_abs(Tail(ls))
            ELSE <<vals>> \o _generate_moves_no_abs(Tail(ls))

RECURSIVE _generate_moves(_)
\* InventoryLine._generate_moves: the vals_list handed to stock.move.create,
\* `ls` being the lines in the recordset's order
_generate_moves(ls) ==
    IF ls = <<>> THEN <<>>
    ELSE LET line == Head(ls)
             vals == IF difference_qty(line) > 0
                     THEN _get_move_values(line, difference_qty(line),
                                           Virtual, line.location_id, FALSE)
                     ELSE _get_move_values(line, Abs(difference_qty(line)),
                                           line.location_id, Virtual, TRUE)
         IN IF float_is_zero(difference_qty(line))
            THEN _generate_moves(Tail(ls))
            ELSE <<vals>> \o _generate_moves(Tail(ls))

\* ------------------------------------------------ Reconciliation Orchestrator

\* action_check without the unlink of the existing moves
action_check_keeps_moves(i) ==
    IF inventories[i].state \notin {"done", "cancel"}
    THEN Insert(moves, _generate_moves(SetToSeq(line_ids(i))))
    ELSE moves

\* Inventory.action_check: the stock.move table after the call
action_check(i) ==
    IF inventories[i].state \notin {"done", "cancel"}
    THEN Insert(moves \ move_ids(i), _generate_moves(SetToSeq(line_ids(i))))
    ELSE moves

\* post_inventory posting the draft moves only
post_inventory_draft_only(mv, i) == {m \in mv : m.inventory_id = i /\ m.state = "draft"}

\* Inventory.post_inventory on the move table mv: the moves it posts.  What
\* stock.move._action_done then does to the quants is the ledger's own business:
\* the ledger is read here, never written.
post_inventory(mv, i) == {m \in mv : m.inventory_id = i /\ m.state # "done"}

\* the tracked-product test of Inventory.action_validate
inventory_lines(i) ==
    {l \in line_ids(i) : /\ tracking[l.product_id] \in {"lot", "serial"}
                         /\ l.prod_lot_id = False
                         /\ l.theoretical_qty # l.product_qty}

serial_lines(i) ==
    {l \in line_ids(i) : /\ float_compare(l.product_qty, One) > 0
                         /\ tracking[l.product_id] = "serial"
                         /\ l.prod_lot_id # False}

\* the wizard test with "and lines" for "and not lines"
track_confirmation_and_lines(i) == inventory_lines(i) # {} /\ serial_lines(i) # {}

\* TRUE when action_validate opens the stock.track.confirmation wizard
track_confirmation(i) == inventory_lines(i) # {} /\ serial_lines(i) = {}

\* the refused lines, were the test "counted below theoretical"
negative_below_theoretical(i) ==
    {l \in line_ids(i) : l.product_qty < 0 /\ l.product_qty < l.theoretical_qty}

\* the line _action_done refuses, if any
negative(i) ==
    {l \in line_ids(i) : l.product_qty < 0 /\ l.product_qty # l.theoretical_qty}

\* Inventory._action_done
_action_done(i, manager, multi_locations) ==
    LET inv == inventories[i]
        checked == action_check(i)
        posted == post_inventory(checked, i)
        locations == {l \in child_of(inv.location_ids) :
                         usage[l] \in {"internal", "transit"}}
    IN IF negative(i) # {} THEN Raise("action_validate", i, manager)
       ELSE /\ moves' = {IF m \in posted THEN [m EXCEPT !.state = "done"] ELSE m :
                            m \in checked}
            /\ inventories' = [inventories EXCEPT ![i].state = "done", ![i].date = now]
            /\ last_inventory_date' =
                   IF multi_locations /\ inv.product_ids = {} /\ inv.location_ids # {}
                   THEN [l \in Locations |->
                            IF l \in locations THEN now ELSE last_inventory_date[l]]
                   ELSE last_inventory_date
            /\ last' = Called("action_validate", i, "done", manager)
            /\ UNCHANGED <<lines, quants, next_inventory_date, runs, now>>

\* action_validate without its user_has_groups test
action_validate_any_user(i, manager, multi_locations) ==
    /\ i \in DOMAIN inventories
    /\ IF inventories[i].state # "confirm" THEN Raise("action_validate", i, manager)
       ELSE IF track_confirmation(i)
            THEN /\ last' = Called("action_validate", i, "wizard", manager)
                 /\ UNCHANGED <<inventories, lines, moves, quants, last_inventory_date, next_inventory_date, runs, now>>
       ELSE _action_done(i, manager, multi_locations)

\* Inventory.action_validate, called by a user who is a stock manager or not
action_validate(i, manager, multi_locations) ==
    /\ i \in DOMAIN inventories
    /\ IF ~manager THEN Raise("action_validate", i, manager)
       ELSE IF inventories[i].state # "confirm" THEN Raise("action_validate", i, manager)
       ELSE IF track_confirmation(i)
            THEN /\ last' = Called("action_validate", i, "wizard", manager)
                 /\ UNCHANGED <<inventories, lines, moves, quants, last_inventory_date, next_inventory_date, runs, now>>
       ELSE _action_done(i, manager, multi_locations)

\* Inventory.action_check called on its own
ActionCheck(i) ==
    /\ i \in DOMAIN inventories
    /\ moves' = action_check(i)
    /\ last' = Called("action_check", i, "ok", FALSE)
    /\ UNCHANGED <<inventories, lines, quants, last_inventory_date, next_inventory_date, runs, now>>

\* stock.move._action_cancel: the moves, cancelled
_action_cancel(ms) == {[m EXCEPT !.state = "cancel"] : m \in ms}

\* action_cancel_draft leaving the posted moves as they are
action_cancel_draft_skips_done(i) ==
    /\ i \in DOMAIN inventories
    /\ moves' = {IF m.inventory_id = i /\ m.state # "done"
                 THEN [m EXCEPT !.state = "cancel"] ELSE m : m \in moves}
    /\ lines' = lines \ line_ids(i)
    /\ inventories' = [inventories EXCEPT ![i].state = "draft"]
    /\ last' = Called("action_cancel_draft", i, "ok", inventories[i].state)
    /\ UNCHANGED <<quants, last_inventory_date, next_inventory_date, runs, now>>

\* action_cancel_draft without its line_ids.unlink()
action_cancel_draft_keeps_lines(i) ==
    /\ i \in DOMAIN inventories
    /\ moves' = {IF m.inventory_id = i THEN [m EXCEPT !.state = "cancel"] ELSE m :
                    m \in moves}
    /\ inventories' = [inventories EXCEPT ![i].state = "draft"]
    /\ last' = Called("action_cancel_draft", i, "ok", inventories[i].state)
    /\ UNCHANGED <<lines, quants, last_inventory_date, next_inventory_date, runs, now>>

\* Inventory.action_cancel_draft
action_cancel_draft(i) ==
    /\ i \in DOMAIN inventories
    /\ moves' = (moves \ move_ids(i)) \cup _action_cancel(move_ids(i))
    /\ lines' = lines \ line_ids(i)
    /\ inventories' = [inventories EXCEPT ![i].state = "draft"]
    /\ last' = Called("action_cancel_draft", i, "ok", inventories[i].state)
    /\ UNCHANGED <<quants, last_inventory_date, next_inventory_date, runs, now>>

\* _action_start without the test on the state
_action_start_any_state(i) ==
    /\ i \in DOMAIN inventories
    /\ LET inv == inventories[i]
           created == create(_get_inventory_lines_values(i))
       IN IF line_ids(i) = {} /\ ~inv.start_empty
          THEN IF ~_check_no_duplicate_line(created, created \ lines)
               THEN Raise("action_start", i, FALSE)
               ELSE /\ lines' = created
                    /\ inventories' = [inventories EXCEPT ![i].state = "confirm",
                                                          ![i].date = now]
                    /\ last' = Called("action_start", i, "generated", FALSE)
                    /\ UNCHANGED <<moves, quants, last_inventory_date, next_inventory_date, runs, now>>
          ELSE /\ inventories' = [inventories EXCEPT ![i].state = "confirm",
                                                     ![i].date = now]
               /\ last' = Called("action_start", i, "confirmed", FALSE)
               /\ UNCHANGED <<lines, moves, quants, last_inventory_date, next_inventory_date, runs, now>>

\* _action_start without the start_empty test
_action_start_always_fills(i) ==
    /\ i \in DOMAIN inventories
    /\ LET inv == inventories[i]
           created == create(_get_inventory_lines_values(i))
       IN IF inv.state # "draft"
          THEN /\ last' = Called("action_start", i, "skipped", FALSE)
               /\ UNCHANGED <<inventories, lines, moves, quants, last_inventory_date, next_inventory_date, runs, now>>
          ELSE IF line_ids(i) = {}
          THEN IF ~_check_no_duplicate_line(created, created \ lines)
               THEN Raise("action_start", i, FALSE)
               ELSE /\ lines' = created
                    /\ inventories' = [inventories EXCEPT ![i].state = "confirm",
                                                          ![i].date = now]
                    /\ last' = Called("action_start", i, "generated", FALSE)
                    /\ UNCHANGED <<moves, quants, last_inventory_date, next_inventory_date, runs, now>>
          ELSE /\ inventories' = [inventories EXCEPT ![i].state = "confirm",
                                                     ![i].date = now]
               /\ last' = Called("action_start", i, "confirmed", FALSE)
               /\ UNCHANGED <<lines, moves, quants, last_inventory_date, next_inventory_date, runs, now>>

\* Inventory._action_start (through action_start)
_action_start(i) ==
    /\ i \in DOMAIN inventories
    /\ LET inv == inventories[i]
           created == create(_get_inventory_lines_values(i))
       IN IF inv.state # "draft"
          THEN /\ last' = Called("action_start", i, "skipped", FALSE)
               /\ UNCHANGED <<inventories, lines, moves, quants, last_inventory_date, next_inventory_date, runs, now>>
          ELSE IF line_ids(i) = {} /\ ~inv.start_empty
          THEN IF ~_check_no_duplicate_line(created, created \ lines)
               THEN Raise("action_start", i, FALSE)
               ELSE /\ lines' = created
                    /\ inventories' = [inventories EXCEPT ![i].state = "confirm",
                                                          ![i].date = now]
                    /\ last' = Called("action_start", i, "generated", FALSE)
                    /\ UNCHANGED <<moves, quants, last_inventory_date, next_inventory_date, runs, now>>
          ELSE /\ inventories' = [inventories EXCEPT ![i].state = "confirm",
                                                     ![i].date = now]
               /\ last' = Called("action_start", i, "confirmed", FALSE)
               /\ UNCHANGED <<lines, moves, quants, last_inventory_date, next_inventory_date, runs, now>>

\* ------------------------------------------------------------ user edits

\* The quantities a user enters: -1, 0, a fraction below the rounding, 1 and 2 units.
Quantities == {-One, 0, 1, One, 2 * One}

\* Inventory.line_ids is readonly once the inventory is done
line_ids_readonly(i) == inventories[i].state = "done"

\* InventoryLine.product_qty is readonly unless the inventory is in progress
product_qty_readonly(i) == inventories[i].state # "confirm"

\* InventoryLine.create of one line by the user
LineCreate(i, k, qty) ==
    /\ i \in DOMAIN inventories
    /\ ~line_ids_readonly(i)
    /\ Cardinality(line_ids(i)) < MaxLines
    /\ LET created == create(<<[inventory_id |-> i, product_qty |-> qty] @@ k>>)
       IN IF ~_check_no_duplicate_line(created, created \ lines)
          THEN Raise("create", i, FALSE)
          ELSE /\ lines' = created
               /\ last' = Called("create", i, "ok", FALSE)
               /\ UNCHANGED <<inventories, moves, quants, last_inventory_date, next_inventory_date, runs, now>>

\* InventoryLine.write of `vals` on one line
LineWrite(line, vals) ==
    /\ line \in lines
    /\ LET written == write({line}, vals)
       IN IF ~_check_no_duplicate_line(written, {vals @@ line})
          THEN Raise("write", line.inventory_id, FALSE)
          ELSE /\ lines' = written
               /\ last' = Called("write", line.inventory_id, "ok", FALSE)
               /\ UNCHANGED <<inventories, moves, quants, last_inventory_date, next_inventory_date, runs, now>>

\* the user counts a line
WriteQty(line, qty) ==
    /\ line \in lines
    /\ ~product_qty_readonly(line.inventory_id)
    /\ LineWrite(line, [product_qty |-> qty])

\* the user moves a line to another product, location, lot, package or owner
WriteKey(line, k) ==
    /\ line \in lines
    /\ ~line_ids_readonly(line.inventory_id)
    /\ LineWrite(line, k)

\* ------------------------------------------------------- line quantities

\* stock.production.lot.product_id
lot_product == [lot \in Lots |-> "pS"]

\* InventoryLine._compute_outdated: the flag of a line of the table
outdated(line) ==
    LET quants_i == _get_quantities(line.inventory_id)
        qty == IF LineKey(line) \in DOMAIN quants_i THEN quants_i[LineKey(line)] ELSE 0
    IN IF inventories[line.inventory_id].state = "done"
       THEN FALSE
       ELSE float_compare(qty, line.theoretical_qty) # 0

\* action_refresh_quantity writing the quantity on the counted quantity too
action_refresh_quantity_and_counted(ls) ==
    LET filtered_lines == {l \in ls : inventories[l.inventory_id].state # "done"}
        quantity(l) == IF _gather(LineKey(l)) # {}
                       THEN SumQuantity(_gather(LineKey(l)))
                       ELSE 0
    IN {IF l \in filtered_lines /\ outdated(l)
        THEN [l EXCEPT !.theoretical_qty = quantity(l), !.product_qty = quantity(l)]
        ELSE l : l \in lines}

\* InventoryLine.action_refresh_quantity on the lines ls: the table after the call
action_refresh_quantity(ls) ==
    LET filtered_lines == {l \in ls : inventories[l.inventory_id].state # "done"}
        quantity(l) == IF _gather(LineKey(l)) # {}
                       THEN SumQuantity(_gather(LineKey(l)))
                       ELSE 0
    IN {IF l \in filtered_lines /\ outdated(l)
        THEN [l EXCEPT !.theoretical_qty = quantity(l)]
        ELSE l : l \in lines}

\* action_reset_product_qty taking the lines of validated inventories too
impacted_lines_any(ls) == ls

\* InventoryLine.action_reset_product_qty: the lines it writes on
impacted_lines(ls) == {l \in ls : inventories[l.inventory_id].state # "done"}

\* the onchange taking the new theoretical quantity whatever was counted
_onchange_quantity_context_resets(line) ==
    LET theoretical_qty == get_theoretical_quantity(LineKey(line))
        prod_lot_id ==
            IF /\ line.prod_lot_id # False
               /\ \/ tracking[line.product_id] = "none"
                  \/ line.product_id # lot_product[line.prod_lot_id]
            THEN False
            ELSE line.prod_lot_id
        product_qty ==
            IF prod_lot_id # False /\ tracking[line.product_id] = "serial"
            THEN One
            ELSE theoretical_qty
    IN [line EXCEPT !.prod_lot_id = prod_lot_id,
                    !.product_qty = product_qty,
                    !.theoretical_qty = theoretical_qty]

\* InventoryLine._onchange_quantity_context on the record of the form: `line`
\* holds the product, location, lot, package and owner just entered, and the
\* counted and theoretical quantities as they were
_onchange_quantity_context(line) ==
    LET theoretical_qty == get_theoretical_quantity(LineKey(line))
        prod_lot_id ==
            IF /\ line.prod_lot_id # False
               /\ \/ tracking[line.product_id] = "none"
                  \/ line.product_id # lot_product[line.prod_lot_id]
            THEN False
            ELSE line.prod_lot_id
        product_qty ==
            IF prod_lot_id # False /\ tracking[line.product_id] = "serial"
            THEN One
            ELSE IF float_compare(line.product_qty, line.theoretical_qty) = 0
            THEN theoretical_qty
            ELSE line.product_qty
    IN [line EXCEPT !.prod_lot_id = prod_lot_id,
                    !.product_qty = product_qty,
                    !.theoretical_qty = theoretical_qty]

\* the user has the outdated quantities of the lines ls refreshed
LineRefresh(ls) ==
    /\ ls \subseteq lines
    /\ lines' = action_refresh_quantity(ls)
    /\ last' = Called("action_refresh_quantity", 0, "ok", {l.id : l \in ls})
    /\ UNCHANGED <<inventories, moves, quants, last_inventory_date, next_inventory_date,
                   runs, now>>

\* the user has the counted quantities of the lines ls set to zero
LineReset(ls) ==
    /\ ls \subseteq lines
    /\ LET written == write(impacted_lines(ls), [product_qty |-> 0])
       IN IF ~_check_no_duplicate_line(written, written \ (lines \ impacted_lines(ls)))
          THEN Raise("action_reset_product_qty", 0, {l.id : l \in ls})
          ELSE /\ lines' = written
               /\ last' = Called("action_reset_product_qty", 0, "ok", {l.id : l \in ls})
               /\ UNCHANGED <<inventories, moves, quants, last_inventory_date,
                              next_inventory_date, runs, now>>

\* the user enters the key k on a line of the form, the onchange answers and
\* the line is saved
LineOnchange(line, k) ==
    /\ line \in lines
    /\ ~line_ids_readonly(line.inventory_id)
    /\ LineKey(line) # k
    /\ LET changed == _onchange_quantity_context(k @@ line)
           written == (lines \ {line}) \cup {changed}
       IN IF ~_check_no_duplicate_line(written, {changed})
          THEN Raise("_onchange_quantity_context", line.inventory_id, FALSE)
          ELSE /\ lines' = written
               /\ last' = Called("_onchange_quantity_context", line.inventory_id, "ok",
                                 [entered |-> k @@ line, saved |-> changed])
               /\ UNCHANGED <<inventories, moves, quants, last_inventory_date,
                              next_inventory_date, runs, now>>

\* ------------------------------------------------------ conflict detector

\* company_domain: every company for the cron, the user's company when the run
\* is triggered by hand
company_domain(company_id, c) ==
    IF company_id # False THEN c = company_id ELSE c # False

\* the locations below the warehouse's view location
warehouse_to_locations(w) ==
    {l \in Locations : view_location_id[w] \in ancestors(l)}

\* stock.location.child_ids
child_ids(l) == {c \in Locations : parent[c] = l}

\* the first record of a recordset of inventories: _order = "date desc, id desc"
First(invs, ids) ==
    CHOOSE i \in ids : \A j \in ids : \/ invs[i].date > invs[j].date
                                      \/ invs[i].date = invs[j].date /\ i >= j

\* the conflict inventories found without the company domain
existing_conflict_invs_all_companies(invs, company_id) ==
    {i \in DOMAIN invs : /\ invs[i].state \in {"draft", "confirm"}
                         /\ invs[i].is_conflict_inventory}

\* the draft and in-progress conflict inventories the run finds
existing_conflict_invs(invs, company_id) ==
    {i \in DOMAIN invs : /\ invs[i].state \in {"draft", "confirm"}
                         /\ invs[i].is_conflict_inventory
                         /\ company_domain(company_id, invs[i].company_id)}

neg_quants(qs, company_id) ==
    {q \in qs : /\ q.quantity < 0
                /\ usage[q.location_id] \in {"internal", "transit"}
                /\ company_domain(company_id, company[q.location_id])}

\* the warehouses of the companies that hold a negative quant
warehouse_ids(qs, company_id) ==
    {w \in Warehouses :
        warehouse_company[w] \in {company[q.location_id] : q \in neg_quants(qs, company_id)}}

\* confirm_inv looking for validated inventories
confirm_inv_done(invs, company_id, w) ==
    {i \in existing_conflict_invs(invs, company_id) :
        /\ invs[i].state = "done"
        /\ invs[i].company_id = warehouse_company[w]
        /\ invs[i].location_ids \cap warehouse_to_locations(w) # {}}

\* the in-progress conflict inventories in the way of warehouse w
confirm_inv(invs, company_id, w) ==
    {i \in existing_conflict_invs(invs, company_id) :
        /\ invs[i].state = "confirm"
        /\ invs[i].company_id = warehouse_company[w]
        /\ invs[i].location_ids \cap warehouse_to_locations(w) # {}}

\* warehouse_quants without the test on the quant's location
warehouse_quants_anywhere(qs, company_id, w) == neg_quants(qs, company_id)

warehouse_quants(qs, company_id, w) ==
    {q \in neg_quants(qs, company_id) : q.location_id \in warehouse_to_locations(w)}

\* draft_inv asking for the very locations of the warehouse
draft_inv_same_locations(invs, company_id, w) ==
    {i \in existing_conflict_invs(invs, company_id) :
        /\ invs[i].state = "draft"
        /\ invs[i].company_id = warehouse_company[w]
        /\ invs[i].location_ids = warehouse_to_locations(w)}

draft_inv(invs, company_id, w) ==
    {i \in existing_conflict_invs(invs, company_id) :
        /\ invs[i].state = "draft"
        /\ invs[i].company_id = warehouse_company[w]
        /\ invs[i].location_ids \cap warehouse_to_locations(w) # {}}

\* the warehouses the negative quantity check does something for
neg_warehouses(invs, qs, company_id) ==
    {w \in warehouse_ids(qs, company_id) :
        /\ confirm_inv(invs, company_id, w) = {}
        /\ warehouse_quants(qs, company_id, w) # {}}

\* negative quantity check: the writes on every draft of each warehouse
neg_writes_all(invs, qs, company_id) ==
    LET ds == SetToSeq({<<i, w>> \in (DOMAIN invs) \X neg_warehouses(invs, qs, company_id) :
                           i \in draft_inv(invs, company_id, w)})
    IN [n \in 1..Len(ds) |->
           <<ds[n][1],
             [product_ids |-> {q.product_id : q \in warehouse_quants(qs, company_id, ds[n][2])}]>>]

\* negative quantity check: the writes on the first draft of each warehouse
neg_writes(invs, qs, company_id) ==
    LET ws == SetToSeq({w \in neg_warehouses(invs, qs, company_id) :
                           draft_inv(invs, company_id, w) # {}})
    IN [n \in 1..Len(ws) |->
           <<First(invs, draft_inv(invs, company_id, ws[n])),
             [product_ids |-> {q.product_id : q \in warehouse_quants(qs, company_id, ws[n])}]>>]

\* inventory_vals_to_create for the warehouses that never had a conflict
\* inventory
neg_vals_to_create_once(invs, qs, company_id) ==
    LET ws == SetToSeq({w \in neg_warehouses(invs, qs, company_id) :
                           \A i \in DOMAIN invs :
                               \/ ~invs[i].is_conflict_inventory
                               \/ invs[i].location_ids \cap warehouse_to_locations(w) = {}})
    IN [n \in 1..Len(ws) |->
           [company_id |-> warehouse_company[ws[n]],
            product_ids |-> {q.product_id : q \in warehouse_quants(qs, company_id, ws[n])},
            is_conflict_inventory |-> TRUE,
            location_ids |-> child_ids(view_location_id[ws[n]])]]

\* negative quantity check: inventory_vals_to_create
neg_vals_to_create(invs, qs, company_id) ==
    LET ws == SetToSeq({w \in neg_warehouses(invs, qs, company_id) :
                           draft_inv(invs, company_id, w) = {}})
    IN [n \in 1..Len(ws) |->
           [company_id |-> warehouse_company[ws[n]],
            product_ids |-> {q.product_id : q \in warehouse_quants(qs, company_id, ws[n])},
            is_conflict_inventory |-> TRUE,
            location_ids |-> child_ids(view_location_id[ws[n]])]]

\* conflicting SN check: the quants of serial numbers in stock
sn_quants(qs, company_id) ==
    {q \in qs : /\ usage[q.location_id] \in {"internal", "transit"}
                /\ q.lot_id # False
                /\ tracking[q.product_id] = "serial"
                /\ q.quantity # 0
                /\ company_domain(company_id, company[q.location_id])}

\* the (lot, company, product) groups of more than one quant
sn_groups(qs, company_id) ==
    {g \in {<<q.lot_id, company[q.location_id], q.product_id>> : q \in sn_quants(qs, company_id)} :
        Cardinality({q \in sn_quants(qs, company_id) :
                        <<q.lot_id, company[q.location_id], q.product_id>> = g}) > 1}

\* company -> (lot_ids, product_ids) of its duplicated serial numbers
company_to_sn_conflicts(qs, company_id) ==
    [c \in {g[2] : g \in sn_groups(qs, company_id)} |->
        [lot_ids |-> {g[1] : g \in {h \in sn_groups(qs, company_id) : h[2] = c}},
         product_ids |-> {g[3] : g \in {h \in sn_groups(qs, company_id) : h[2] = c}}]]

\* the in-progress duplicated-SN inventories of company c
sn_confirm_inv(invs, company_id, c) ==
    {i \in existing_conflict_invs(invs, company_id) :
        invs[i].state = "confirm" /\ invs[i].lot_ids # {} /\ invs[i].company_id = c}

\* sn_draft_inv without the test on lot_ids
sn_draft_inv_any(invs, company_id, c) ==
    {i \in existing_conflict_invs(invs, company_id) :
        invs[i].state = "draft" /\ invs[i].company_id = c}

sn_draft_inv(invs, company_id, c) ==
    {i \in existing_conflict_invs(invs, company_id) :
        invs[i].state = "draft" /\ invs[i].lot_ids # {} /\ invs[i].company_id = c}

\* the companies the conflicting SN check does something for
sn_companies(invs, qs, company_id) ==
    {c \in DOMAIN company_to_sn_conflicts(qs, company_id) :
        sn_confirm_inv(invs, company_id, c) = {}}

\* conflicting SN check: the writes on every draft of each company
sn_writes(invs, qs, company_id) ==
    LET todo == SetToSeq({<<i, c>> \in (DOMAIN invs) \X sn_companies(invs, qs, company_id) :
                             i \in sn_draft_inv(invs, company_id, c)})
    IN [n \in 1..Len(todo) |->
           <<todo[n][1], company_to_sn_conflicts(qs, company_id)[todo[n][2]]>>]

\* conflicting SN check: inventory_vals_to_create
sn_vals_to_create(invs, qs, company_id) ==
    LET cs == SetToSeq({c \in sn_companies(invs, qs, company_id) :
                           sn_draft_inv(invs, company_id, c) = {}})
    IN [n \in 1..Len(cs) |->
           [company_id |-> cs[n],
            lot_ids |-> company_to_sn_conflicts(qs, company_id)[cs[n]].lot_ids,
            product_ids |-> company_to_sn_conflicts(qs, company_id)[cs[n]].product_ids,
            is_conflict_inventory |-> TRUE]]

\* obsolete, sparing the drafts that still name products
obsolete_without_products(invs, company_id, updated_invs) ==
    {i \in existing_conflict_invs(invs, company_id) :
        invs[i].state = "draft" /\ invs[i].product_ids = {}} \ updated_invs

\* the obsolete conflict inventories: the drafts found that were not updated
obsolete(invs, company_id, updated_invs) ==
    {i \in existing_conflict_invs(invs, company_id) : invs[i].state = "draft"} \ updated_invs

\* What a run decides from the inventories and quants it has read: the writes
\* in their order, the inventories to create, the inventories to unlink.
conflict_plan(invs, qs, company_id) ==
    LET writes == neg_writes(invs, qs, company_id) \o sn_writes(invs, qs, company_id)
    IN [writes |-> writes,
        inventory_vals_to_create |-> neg_vals_to_create(invs, qs, company_id)
                                     \o sn_vals_to_create(invs, qs, company_id),
        unlinks |-> obsolete(invs, company_id, {writes[n][1] : n \in 1..Len(writes)})]

\* the field defaults of a new stock.inventory
inventory_defaults(today) ==
    [state |-> "draft", date |-> today, create_date |-> today, company_id |-> "c1",
     location_ids |-> {}, product_ids |-> {}, start_empty |-> FALSE,
     prefill_counted_quantity |-> "counted", exhausted |-> FALSE,
     is_conflict_inventory |-> FALSE, lot_ids |-> {}]

RECURSIVE write_inventories(_, _)
\* Inventory.write, one call after the other
write_inventories(invs, writes) ==
    IF writes = <<>> THEN invs
    ELSE write_inventories([invs EXCEPT ![Head(writes)[1]] = Head(writes)[2] @@ @],
                           Tail(writes))

RECURSIVE create_inventories(_, _, _)
\* Inventory.create of a list of vals
create_inventories(invs, vals_list, today) ==
    IF vals_list = <<>> THEN invs
    ELSE create_inventories(
             invs @@ (NewId({[id |-> i] : i \in DOMAIN invs})
                         :> (Head(vals_list) @@ inventory_defaults(today))),
             Tail(vals_list), today)

\* Inventory.unlink
unlink_inventories(invs, ids) == [i \in DOMAIN invs \ ids |-> invs[i]]

\* the plan carried out on the table
conflict_apply(invs, plan, today) ==
    unlink_inventories(
        create_inventories(write_inventories(invs, plan.writes),
                           plan.inventory_vals_to_create, today),
        plan.unlinks)

\* What a run did: the company it was for, the inventories it created, wrote
\* and unlinked.
Ran(company_id, before, plan, after) ==
    [company_id |-> company_id,
     created |-> DOMAIN after \ DOMAIN before,
     updated |-> {plan.writes[n][1] : n \in 1..Len(plan.writes)},
     unlinked |-> plan.unlinks]

\* Inventory._run_conflict_inventory_tasks, in one transaction
_run_conflict_inventory_tasks(company_id) ==
    \E plan \in {conflict_plan(inventories, quants, company_id)} :
        \E after \in {conflict_apply(inventories, plan, now)} :
            /\ inventories' = after
            /\ lines' = {l \in lines : l.inventory_id \in DOMAIN after}
            /\ last' = Called("_run_conflict_inventory_tasks", 0, "ok",
                              Ran(company_id, inventories, plan, after))
            /\ UNCHANGED <<moves, quants, last_inventory_date, next_inventory_date, runs, now>>

\* ------------------------------------------------ concurrent detector runs

\* The run of runner r begins: its transaction reads the inventories and the
\* quants as they are committed now.
RunBegins(r, company_id) ==
    /\ runs[r].at = "idle"
    /\ runs' = [runs EXCEPT ![r] = [at |-> "read", inventories |-> inventories,
                                    quants |-> quants, company_id |-> company_id]]
    /\ last' = Called("begin", 0, "ok", FALSE)
    /\ UNCHANGED <<inventories, lines, moves, quants, last_inventory_date,
                   next_inventory_date, now>>

\* a row the run writes or unlinks was changed or deleted by a transaction
\* committed since the run read it
concurrent_update(r, plan) ==
    \E i \in {plan.writes[n][1] : n \in 1..Len(plan.writes)} \cup plan.unlinks :
        \/ i \notin DOMAIN inventories
        \/ inventories[i] # runs[r].inventories[i]

\* The run of runner r ends: what it decided from what it read is written,
\* created and unlinked in the table as it is now, or the transaction is rolled
\* back on a concurrent update.
RunCommits(r) ==
    /\ runs[r].at = "read"
    /\ runs' = [runs EXCEPT ![r] = Idle]
    /\ LET plan == conflict_plan(runs[r].inventories, runs[r].quants, runs[r].company_id)
           after == conflict_apply(inventories, plan, now)
       IN IF concurrent_update(r, plan)
          THEN /\ last' = Called("_run_conflict_inventory_tasks", 0, "error", FALSE)
               /\ UNCHANGED <<inventories, lines>>
          ELSE /\ inventories' = after
               /\ lines' = {l \in lines : l.inventory_id \in DOMAIN after}
               /\ last' = Called("_run_conflict_inventory_tasks", 0, "ok",
                                 Ran(runs[r].company_id, inventories, plan, after))
    /\ UNCHANGED <<moves, quants, last_inventory_date, next_inventory_date, now>>

\* -------------------------------------------------------- cyclic counts

\* the locations whose next inventory date is today or earlier
due_locations(company_id, today) ==
    {l \in DOMAIN next_inventory_date :
        /\ next_inventory_date[l] <= today
        /\ company_domain(company_id, company[l])}

\* the filter looking at the parent only
locations_parent_only(company_id, today) ==
    {l \in due_locations(company_id, today) :
        parent[l] \notin due_locations(company_id, today)}

\* the due locations that lie below no other due location (parent_path holds
\* the ancestors at every depth)
locations(company_id, today) ==
    {l \in due_locations(company_id, today) :
        ancestors(l) \cap due_locations(company_id, today) = {}}

\* the draft and in-progress inventories of locations, without product filter
existing_loc_invs(invs) ==
    {i \in DOMAIN invs : /\ invs[i].state \in {"draft", "confirm"}
                         /\ invs[i].product_ids = {}
                         /\ invs[i].location_ids # {}}

\* inventory.location_ids[0] of an inventory of one location
location_0(invs, i) == CHOOSE l \in invs[i].location_ids : TRUE

\* the inventories of one location, in draft or in progress, taken as stale
invs_to_unlink_any_state(invs, company_id, today) ==
    {i \in existing_loc_invs(invs) :
        /\ Cardinality(invs[i].location_ids) = 1
        /\ \/ ancestors(location_0(invs, i)) \cap locations(company_id, today) # {}
           \/ /\ location_0(invs, i) \in locations(company_id, today)
              /\ invs[i].create_date < today}

\* the drafts of one location that lies below a location to count, or that is
\* to count and whose draft was created before today
invs_to_unlink(invs, company_id, today) ==
    {i \in existing_loc_invs(invs) :
        /\ Cardinality(invs[i].location_ids) = 1
        /\ invs[i].state = "draft"
        /\ \/ ancestors(location_0(invs, i)) \cap locations(company_id, today) # {}
           \/ /\ location_0(invs, i) \in locations(company_id, today)
              /\ invs[i].create_date < today}

\* only the drafts taken for the inventories that stay
existing_cyclic_inv_draft_only(invs, company_id, today) ==
    {i \in existing_loc_invs(invs) \ invs_to_unlink(invs, company_id, today) :
        /\ Cardinality(invs[i].location_ids) = 1
        /\ invs[i].state = "draft"
        /\ location_0(invs, i) \in locations(company_id, today)}

\* the inventories of one location to count that stay
existing_cyclic_inv(invs, company_id, today) ==
    {i \in existing_loc_invs(invs) \ invs_to_unlink(invs, company_id, today) :
        /\ Cardinality(invs[i].location_ids) = 1
        /\ location_0(invs, i) \in locations(company_id, today)}

\* location_vals: one inventory for each location to count that has none
location_vals(invs, company_id, today) ==
    LET ls == SetToSeq(locations(company_id, today)
                       \ UNION {invs[i].location_ids :
                                   i \in existing_cyclic_inv(invs, company_id, today)})
    IN [n \in 1..Len(ls) |-> [company_id |-> company[ls[n]], location_ids |-> {ls[n]}]]

\* Inventory._run_inventory_tasks: the cyclic inventories, then the conflict
\* inventories
_run_inventory_tasks(company_id) ==
    LET unlinked == invs_to_unlink(inventories, company_id, now)
        kept == unlink_inventories(inventories, unlinked)
        cyclic == create_inventories(kept, location_vals(inventories, company_id, now), now)
        plan == conflict_plan(cyclic, quants, company_id)
        after == conflict_apply(cyclic, plan, now)
    IN /\ inventories' = after
       /\ lines' = {l \in lines : l.inventory_id \notin unlinked \cup plan.unlinks}
       /\ last' = Called("_run_inventory_tasks", 0, "ok",
                         [cyclic_unlinked |-> unlinked,
                          cyclic_created |-> DOMAIN cyclic \ DOMAIN kept]
                         @@ Ran(company_id, cyclic, plan, after))
       /\ UNCHANGED <<moves, quants, last_inventory_date, next_inventory_date, runs, now>>

\* ----------------------------------------------------------- specification

QuantRecord(k, quantity) ==
    [product_id |-> k.product_id, location_id |-> k.location_id,
     lot_id |-> k.prod_lot_id, package_id |-> k.package_id,
     owner_id |-> k.partner_id, quantity |-> quantity]

RECURSIVE Ledgers(_, _)
\* the ledgers of n quant records out of `records`
Ledgers(records, n) ==
    IF n = 0 THEN {{}}
    ELSE UNION {{Insert(t, <<r>>) : r \in records} : t \in Ledgers(records, n - 1)}

\* A new inventory, as the form creates it.
NewInventory(location_ids, start_empty, prefill, exhausted) ==
    [state |-> "draft", date |-> 0, create_date |-> 0, company_id |-> "c1",
     location_ids |-> location_ids, product_ids |-> {}, start_empty |-> start_empty,
     prefill_counted_quantity |-> prefill, exhausted |-> exhausted,
     is_conflict_inventory |-> FALSE, lot_ids |-> {}]

\* One inventory, newly created, over a ledger of up to MaxQuants quants.
InitWith(configs, records) ==
    /\ inventories \in {1 :> c : c \in configs}
    /\ lines = {}
    /\ moves = {}
    /\ quants \in UNION {Ledgers(records, n) : n \in 0..MaxQuants}
    /\ last_inventory_date = [l \in Locations |-> False]
    /\ next_inventory_date = <<>>
    /\ runs = [r \in Runners |-> Idle]
    /\ now = 1
    /\ last = Called("new", 1, "ok", FALSE)

Start == \E i \in DOMAIN inventories : _action_start(i)

Validate ==
    \E i \in DOMAIN inventories, manager \in BOOLEAN, multi_locations \in BOOLEAN :
        action_validate(i, manager, multi_locations)

Check == \E i \in DOMAIN inventories : ActionCheck(i)

CancelDraft == \E i \in DOMAIN inventories : action_cancel_draft(i)

Create(keys, quantities) ==
    \E i \in DOMAIN inventories, k \in keys, qty \in quantities : LineCreate(i, k, qty)

Count(quantities) == \E line \in lines, qty \in quantities : WriteQty(line, qty)

Rekey(keys) == \E line \in lines, k \in keys : WriteKey(line, k)

\* The orchestrator: one inventory through its life, counted by a user who may
\* add a line for a serial-tracked product without naming the serial number.
FlowKeys == {Key("pS", "S1", False, False, False)}

Init ==
    InitWith({NewInventory({}, FALSE, "counted", FALSE),
              NewInventory({"S1"}, TRUE, "counted", FALSE),
              NewInventory({}, FALSE, "zero", FALSE)},
             {QuantRecord(Key("pS", "S1", "lot1", False, False), One),
              QuantRecord(Key("pN", "B1", False, False, False), -One)})

Next ==
    \/ Start
    \/ Validate
    \/ Check
    \/ CancelDraft
    \/ Create(FlowKeys, Quantities)
    \/ Count(Quantities)

Spec == Init /\ [][Next]_vars

\* The line engine: lines created, counted and moved between keys.
LineKeys ==
    {Key("pN", "S1", False, False, False), Key("pN", "B1", False, False, False),
     Key("pN", "S1", False, "pk1", False), Key("pN", "S1", False, False, "o1"),
     Key("pS", "S1", False, False, False), Key("pS", "S1", "lot1", False, False)}

InitLines ==
    InitWith({NewInventory({}, start_empty, "counted", exhausted) :
                 start_empty \in BOOLEAN, exhausted \in BOOLEAN},
             {QuantRecord(Key("pS", "S1", "lot1", False, False), One),
              QuantRecord(Key("pN", "S1", False, False, False), One)})

NextLines ==
    \/ Start
    \/ CancelDraft
    \/ Create(LineKeys, {0, One})
    \/ Count({0, One})
    \/ Rekey(LineKeys)

SpecLines == InitLines /\ [][NextLines]_vars

\* The conflict detector at work: the ledger goes wrong and is put right by
\* stock moves made elsewhere, the detector runs for one company or for all,
\* and the inventories it creates are started and cancelled.
TaskRecords ==
    {QuantRecord(Key("pN", "S1", False, False, False), -One),
     QuantRecord(Key("pS", "B1", "lot1", False, False), One),
     QuantRecord(Key("pN", "S2", False, False, False), -One),
     QuantRecord(Key("pS", "S2", "lot2", False, False), One)}

\* stock.quant._update_available_quantity: a stock move made elsewhere leaves
\* the quant with this quantity
_update_available_quantity(q, quantity) ==
    /\ q \in quants
    /\ q.quantity # quantity
    /\ quants' = (quants \ {q}) \cup {[q EXCEPT !.quantity = quantity]}
    /\ last' = Called("_update_available_quantity", 0, "ok", FALSE)
    /\ UNCHANGED <<inventories, lines, moves, last_inventory_date, next_inventory_date,
                   runs, now>>

InitTasks ==
    /\ inventories = <<>>
    /\ lines = {}
    /\ moves = {}
    /\ quants \in UNION {Ledgers(TaskRecords, n) : n \in 0..MaxQuants}
    /\ last_inventory_date = [l \in Locations |-> False]
    /\ next_inventory_date = <<>>
    /\ runs = [r \in Runners |-> Idle]
    /\ now = 1
    /\ last = Called("new", 0, "ok", FALSE)

RunConflict ==
    \E company_id \in {False} \cup Companies : _run_conflict_inventory_tasks(company_id)

Moved == \E q \in quants, quantity \in {-One, 0, One} : _update_available_quantity(q, quantity)

NextTasks ==
    \/ RunConflict
    \/ Moved
    \/ Start
    \/ CancelDraft

SpecTasks == InitTasks /\ [][NextTasks]_vars

\* the locations that may have a cyclic count set: a warehouse, its stock and a
\* shelf of it
CyclicLocations == {"WH", "S1", "B1"}

\* the ledger is in order or a product is negative in S1
CyclicRecords == {QuantRecord(Key("pN", "S1", False, False, False), -One)}

\* The scheduler at work over some days: locations have their next inventory
\* date, the run is made for one company or for all, its inventories are started
\* and cancelled, and the days pass.
InitCyclic ==
    /\ inventories = <<>>
    /\ lines = {}
    /\ moves = {}
    /\ quants \in UNION {Ledgers(CyclicRecords, n) : n \in 0..1}
    /\ last_inventory_date = [l \in Locations |-> False]
    /\ next_inventory_date \in UNION {[S -> 1..MaxDay] : S \in SUBSET CyclicLocations}
    /\ runs = [r \in Runners |-> Idle]
    /\ now = 1
    /\ last = Called("new", 0, "ok", FALSE)

RunCyclic ==
    \E company_id \in {False} \cup Companies : _run_inventory_tasks(company_id)

\* fields.Date.today() moves on
Tick ==
    /\ now < MaxDay
    /\ now' = now + 1
    /\ last' = Called("today", 0, "ok", FALSE)
    /\ UNCHANGED <<inventories, lines, moves, quants, last_inventory_date,
                   next_inventory_date, runs>>

NextCyclic ==
    \/ RunCyclic
    \/ Tick
    \/ Start
    \/ CancelDraft

SpecCyclic == InitCyclic /\ [][NextCyclic]_vars

\* one warehouse's ledger gone wrong: a negative quantity, a serial number twice
ConcurrentRecords ==
    {QuantRecord(Key("pN", "S1", False, False, False), -One),
     QuantRecord(Key("pS", "B1", "lot1", False, False), One)}

\* Detector runs in progress at once: each begins and ends on its own, while
\* the inventories are started and cancelled.
InitConcurrent ==
    /\ inventories = <<>>
    /\ lines = {}
    /\ moves = {}
    /\ quants \in UNION {Ledgers(ConcurrentRecords, n) : n \in 0..MaxQuants}
    /\ last_inventory_date = [l \in Locations |-> False]
    /\ next_inventory_date = <<>>
    /\ runs = [r \in Runners |-> Idle]
    /\ now = 1
    /\ last = Called("new", 0, "ok", FALSE)

Begins ==
    \E r \in Runners, company_id \in {False} \cup Companies : RunBegins(r, company_id)

Commits == \E r \in Runners : RunCommits(r)

NextConcurrent ==
    \/ Begins
    \/ Commits
    \/ Start
    \/ CancelDraft

SpecConcurrent == InitConcurrent /\ [][NextConcurrent]_vars

\* The quantities of the lines against a ledger that moves: an inventory, plain,
\* or a conflict inventory with its product or lot filter, is started, its lines
\* are refreshed, it is validated or cancelled.
QuantityRecords ==
    {QuantRecord(Key("pN", "S1", False, False, False), -One),
     QuantRecord(Key("pS", "S1", "lot1", False, False), One)}

InitQuantities ==
    InitWith({NewInventory({}, FALSE, "counted", TRUE),
              NewInventory({}, FALSE, "zero", FALSE),
              [NewInventory({"S1"}, FALSE, "counted", FALSE)
                  EXCEPT !.is_conflict_inventory = TRUE, !.product_ids = {"pN"}],
              [NewInventory({}, FALSE, "counted", FALSE)
                  EXCEPT !.is_conflict_inventory = TRUE, !.product_ids = {"pS"},
                         !.lot_ids = {"lot1"}]},
             QuantityRecords)

\* the lines a call is made on: one line, or all the lines of an inventory
Selections == {{l} : l \in lines} \cup {line_ids(i) : i \in DOMAIN inventories}

Refresh == \E ls \in Selections : LineRefresh(ls)

Reset == \E ls \in Selections : LineReset(ls)

\* a stock manager validates
ValidateAsManager == \E i \in DOMAIN inventories : action_validate(i, TRUE, FALSE)

NextQuantities ==
    \/ Start
    \/ ValidateAsManager
    \/ CancelDraft
    \/ Refresh
    \/ Moved

SpecQuantities == InitQuantities /\ [][NextQuantities]_vars

\* The snapshot against a ledger that moves: an inventory, with exhausted
\* products or with a conflict inventory's filters, is started and cancelled
\* and its lines are refreshed.
InitSnapshot ==
    InitWith({NewInventory({}, FALSE, "counted", TRUE),
              [NewInventory({"S1"}, FALSE, "counted", FALSE)
                  EXCEPT !.is_conflict_inventory = TRUE, !.product_ids = {"pN"}],
              [NewInventory({}, FALSE, "counted", FALSE)
                  EXCEPT !.is_conflict_inventory = TRUE, !.product_ids = {"pS"},
                         !.lot_ids = {"lot1"}]},
             QuantityRecords)

NextSnapshot ==
    \/ Start
    \/ CancelDraft
    \/ Refresh
    \/ Moved

SpecSnapshot == InitSnapshot /\ [][NextSnapshot]_vars

\* The form of a line: the inventory is started, its lines are counted and
\* given another product, location or lot.
OnchangeKeys ==
    {Key("pN", "S1", False, False, False), Key("pN", "S1", "lot1", False, False),
     Key("pS", "S1", "lot1", False, False), Key("pS", "S1", "lot2", False, False),
     Key("pN", "B1", False, False, False)}

InitOnchange ==
    InitWith({NewInventory({}, FALSE, "counted", FALSE),
              NewInventory({}, FALSE, "zero", FALSE)},
             {QuantRecord(Key("pN", "S1", False, False, False), 2 * One),
              QuantRecord(Key("pS", "S1", "lot1", False, False), One),
              QuantRecord(Key("pN", "B1", False, False, False), One)})

Onchange(keys) == \E line \in lines, k \in keys : LineOnchange(line, k)

NextOnchange ==
    \/ Start
    \/ Count({0, 1, One})
    \/ Onchange(OnchangeKeys)

SpecOnchange == InitOnchange /\ [][NextOnchange]_vars

\* A validated inventory and what is done next: everything the module can be
\* asked to do, on its lines, on itself and by the scheduler.
InitDone ==
    InitWith({NewInventory({}, FALSE, "zero", FALSE),
              NewInventory({"S1"}, FALSE, "counted", TRUE)},
             QuantityRecords)

\* the scheduler's run, for every company, while the table is small
RunScheduled ==
    /\ Cardinality(DOMAIN inventories) < MaxInventories
    /\ _run_inventory_tasks(False)

NextDone ==
    \/ Start
    \/ ValidateAsManager
    \/ Check
    \/ CancelDraft
    \/ Refresh
    \/ Reset
    \/ RunScheduled

SpecDone == InitDone /\ [][NextDone]_vars

\* the inventories a user left behind: of two locations, of one product, of a
\* shelf alone, of the stock location alone
StaleInventories ==
    {NewInventory({"S1", "B1"}, FALSE, "counted", FALSE),
     [NewInventory({"B1"}, FALSE, "counted", FALSE) EXCEPT !.product_ids = {"pN"}],
     NewInventory({"B1"}, FALSE, "counted", FALSE),
     NewInventory({"S1"}, FALSE, "counted", FALSE)}

\* The scheduler over a store where a user made an inventory the day before:
\* the run is made for one company or for all, the inventories are started and
\* cancelled, and the days pass.
InitStale ==
    /\ inventories \in {<<inv>> : inv \in StaleInventories}
    /\ lines = {}
    /\ moves = {}
    /\ quants = {}
    /\ last_inventory_date = [l \in Locations |-> False]
    /\ next_inventory_date \in UNION {[S -> 1..MaxDay] : S \in SUBSET CyclicLocations}
    /\ runs = [r \in Runners |-> Idle]
    /\ now = 1
    /\ last = Called("new", 1, "ok", FALSE)

NextStale ==
    \/ RunCyclic
    \/ Tick
    \/ Start
    \/ CancelDraft

SpecStale == InitStale /\ [][NextStale]_vars

\* The detector over time: the scheduler runs it for every company again and
\* again, a user's opening of the menu runs it for that user's company, the
\* conflict inventories are started, validated and reset, and stock moves.
InitFair ==
    /\ inventories = <<>>
    /\ lines = {}
    /\ moves = {}
    /\ quants \in UNION {Ledgers(CyclicRecords, n) : n \in 0..1}
    /\ last_inventory_date = [l \in Locations |-> False]
    /\ next_inventory_date = <<>>
    /\ runs = [r \in Runners |-> Idle]
    /\ now = 1
    /\ last = Called("new", 0, "ok", FALSE)

\* the detector as the scheduler calls it: company_id=False
RunForAll == _run_conflict_inventory_tasks(False)

\* the detector as the menu calls it: for one company
RunForCompany == \E company_id \in Companies : _run_conflict_inventory_tasks(company_id)

\* the manager validates, while the table is small
ValidateSome ==
    /\ Cardinality(DOMAIN inventories) < MaxInventories
    /\ ValidateAsManager

NextFair ==
    \/ RunForAll
    \/ RunForCompany
    \/ Moved
    \/ Start
    \/ ValidateSome
    \/ CancelDraft

\* the scheduler keeps calling: its run is never put off forever
SpecFair == InitFair /\ [][NextFair]_vars /\ WF_vars(RunForAll)

\* the inventories cancelled long ago: one of the stock location alone, one
\* made for a negative quantity
CancelledInventories ==
    {[NewInventory({"S1"}, FALSE, "counted", FALSE) EXCEPT !.state = "cancel"],
     [NewInventory({"S1"}, FALSE, "counted", FALSE)
         EXCEPT !.state = "cancel", !.product_ids = {"pN"}, !.is_conflict_inventory = TRUE]}

\* The scheduler among inventories in every state: the run is made for one
\* company or for all, its inventories are started, validated and reset, and
\* the days pass.
InitFrame ==
    /\ inventories \in {<<>>} \cup {<<inv>> : inv \in CancelledInventories}
    /\ lines = {}
    /\ moves = {}
    /\ quants \in UNION {Ledgers(CyclicRecords, n) : n \in 0..1}
    /\ last_inventory_date = [l \in Locations |-> False]
    /\ next_inventory_date \in UNION {[S -> 1..MaxDay] : S \in SUBSET {"S1"}}
    /\ runs = [r \in Runners |-> Idle]
    /\ now = 1
    /\ last = Called("new", 0, "ok", FALSE)

NextFrame ==
    \/ RunCyclic
    \/ Tick
    \/ Start
    \/ ValidateSome
    \/ CancelDraft

SpecFrame == InitFrame /\ [][NextFrame]_vars

\* ------------------------------------------------------------------ claims

\* a row without its id
Content(r) == [f \in DOMAIN r \ {"id"} |-> r[f]]

\* C1: no two lines of one inventory share the (product, location, lot, package,
\* owner) key, an empty component matching only an empty one: whatever lines are
\* created, written or generated by start, a duplicate never gets into the table.
C1_NoDuplicateKey ==
    \A a \in lines, b \in lines :
        (a.id # b.id /\ a.inventory_id = b.inventory_id)
            => <<a.product_id, a.location_id, a.prod_lot_id, a.package_id, a.partner_id>>
               # <<b.product_id, b.location_id, b.prod_lot_id, b.package_id, b.partner_id>>

\* C1 witness: a write was refused while the inventory held two lines that agree
\* on every component but one, both with an empty owner and an empty package.
C1_Witness ==
    /\ last.op = "write" /\ last.res = "error"
    /\ \E a \in lines, b \in lines :
           /\ a.id # b.id /\ a.inventory_id = b.inventory_id
           /\ a.product_id = b.product_id /\ a.location_id = b.location_id
           /\ a.package_id = False /\ b.package_id = False
           /\ a.partner_id = False /\ b.partner_id = False
           /\ a.prod_lot_id # b.prod_lot_id

\* what a call must leave alone when it changes nothing
Untouched == UNCHANGED <<inventories, lines, moves, quants, last_inventory_date>>

\* the state of inventory i before and after the step
StateOf(i) == inventories[i].state

\* C2, as claimed: the state only moves draft -> confirm -> done, cancel is
\* entered only from draft or confirm, and done is left only by
\* action_cancel_draft, which leaves a draft inventory without lines, its moves
\* cancelled.
C2_AsClaimed ==
    [][\A i \in DOMAIN inventories \cap DOMAIN inventories' :
          StateOf(i)' # StateOf(i) =>
              \/ StateOf(i) = "draft" /\ StateOf(i)' \in {"confirm", "cancel"}
              \/ StateOf(i) = "confirm" /\ StateOf(i)' \in {"done", "cancel"}
              \/ /\ StateOf(i) = "done" /\ StateOf(i)' = "draft"
                 /\ last'.op = "action_cancel_draft"
                 /\ \A l \in lines' : l.inventory_id # i
                 /\ \A m \in moves' : m.inventory_id = i => m.state = "cancel"]_vars

\* C2, amended: the state changes draft -> confirm by start, confirm -> done by
\* validate, and to draft by action_cancel_draft from whatever state it is in
\* (confirm as well as done), which leaves the inventory without lines and its
\* moves cancelled; nothing here puts an inventory in cancel.
C2_Transitions ==
    [][\A i \in DOMAIN inventories \cap DOMAIN inventories' :
          StateOf(i)' # StateOf(i) =>
              \/ /\ StateOf(i) = "draft" /\ StateOf(i)' = "confirm"
                 /\ last'.op = "action_start"
              \/ /\ StateOf(i) = "confirm" /\ StateOf(i)' = "done"
                 /\ last'.op = "action_validate"
              \/ /\ StateOf(i)' = "draft"
                 /\ last'.op = "action_cancel_draft" /\ last'.inv = i
                 /\ \A l \in lines' : l.inventory_id # i
                 /\ \A m \in moves' : m.inventory_id = i => m.state = "cancel"]_vars

\* C2 witness: action_cancel_draft has just taken a done inventory, which had
\* posted a move, back to draft.
C2_Witness ==
    /\ last.op = "action_cancel_draft" /\ last.arg = "done"
    /\ StateOf(last.inv) = "draft"
    /\ \A l \in lines : l.inventory_id # last.inv
    /\ \E m \in moves : m.inventory_id = last.inv /\ m.state = "cancel"

\* some line of i is counted negative, and otherwise than its theoretical quantity
HasNegativeCount(i) ==
    \E l \in lines : /\ l.inventory_id = i
                     /\ l.product_qty < 0
                     /\ l.product_qty # l.theoretical_qty

\* some line of a lot- or serial-tracked product has no lot and a counted
\* quantity other than the theoretical one
HasUnassignedTracked(i) ==
    \E l \in lines : /\ l.inventory_id = i
                     /\ tracking[l.product_id] \in {"lot", "serial"}
                     /\ l.prod_lot_id = False
                     /\ l.product_qty # l.theoretical_qty

\* some line of a serial-tracked product has a lot and counts more than one unit
HasSerialAboveOne(i) ==
    \E l \in lines : /\ l.inventory_id = i
                     /\ tracking[l.product_id] = "serial"
                     /\ l.prod_lot_id # False
                     /\ float_compare(l.product_qty, One) > 0

\* C3, as claimed: validate on an inventory with a line counted negative and
\* otherwise than theoretical fails with an error and changes nothing.
C3_AsClaimed ==
    [][(last'.op = "action_validate" /\ HasNegativeCount(last'.inv))
          => (last'.res = "error" /\ Untouched)]_vars

\* C3, amended: such a validate changes nothing, and fails with an error unless
\* the tracked-product confirmation comes first (a manager, a confirm-state
\* inventory, an unassigned tracked line and no serial line above one unit), in
\* which case it returns that prompt and _action_done has not run yet.
C3_NegativeRefused ==
    [][(last'.op = "action_validate" /\ HasNegativeCount(last'.inv))
          => /\ Untouched
             /\ IF /\ last'.arg /\ StateOf(last'.inv) = "confirm"
                   /\ HasUnassignedTracked(last'.inv) /\ ~HasSerialAboveOne(last'.inv)
                THEN last'.res = "wizard"
                ELSE last'.res = "error"]_vars

\* C3 witness: a manager's validate of a confirm-state inventory has been refused
\* for a negative count; no tracked line stood in the way.
C3_Witness ==
    /\ last.op = "action_validate" /\ last.res = "error" /\ last.arg
    /\ StateOf(last.inv) = "confirm"
    /\ HasNegativeCount(last.inv)
    /\ ~HasUnassignedTracked(last.inv)

ManagerValidates(i) ==
    /\ last'.op = "action_validate" /\ last'.inv = i /\ last'.arg
    /\ StateOf(i) = "confirm"

\* C5, as claimed: the prompt is returned exactly when some tracked line has no
\* lot and counted # theoretical AND some serial-tracked line with a lot counts
\* more than one.
C5_AsClaimed ==
    [][\A i \in DOMAIN inventories :
          ManagerValidates(i) =>
              (last'.res = "wizard" <=> (HasUnassignedTracked(i) /\ HasSerialAboveOne(i)))]_vars

\* C5, amended: the prompt is returned (state still confirm, nothing generated or
\* posted) exactly when some tracked line has no lot and counted # theoretical
\* and NO serial-tracked line with a lot counts more than one; in every other
\* case validate goes on to _action_done, which ends done or refuses a negative
\* count.
C5_Prompt ==
    [][\A i \in DOMAIN inventories :
          ManagerValidates(i) =>
              IF HasUnassignedTracked(i) /\ ~HasSerialAboveOne(i)
              THEN last'.res = "wizard" /\ Untouched
              ELSE /\ last'.res \in {"done", "error"}
                   /\ last'.res = "done" <=> StateOf(i)' = "done"
                   /\ last'.res = "error" <=> HasNegativeCount(i)]_vars

\* C5 witness: the prompt has been returned to a manager.
C5_Witness ==
    /\ last.op = "action_validate" /\ last.res = "wizard" /\ last.arg
    /\ StateOf(last.inv) = "confirm"
    /\ HasUnassignedTracked(last.inv) /\ ~HasSerialAboveOne(last.inv)

\* the move the line's difference calls for: its quantity, from the virtual
\* location to the line's when more was counted, the other way when less
MoveOf(l, m) ==
    /\ m.inventory_id = l.inventory_id
    /\ m.product_id = l.product_id
    /\ m.lot_id = l.prod_lot_id
    /\ m.restrict_partner_id = l.partner_id
    /\ m.product_uom_qty > 0
    /\ IF l.product_qty > l.theoretical_qty
       THEN /\ m.product_uom_qty = l.product_qty - l.theoretical_qty
            /\ m.location_id = Virtual /\ m.location_dest_id = l.location_id
       ELSE /\ m.product_uom_qty = l.theoretical_qty - l.product_qty
            /\ m.location_id = l.location_id /\ m.location_dest_id = Virtual

\* counted and theoretical differ by half the rounding or more
BeyondRounding(l) == 2 * Abs(l.product_qty - l.theoretical_qty) >= Rounding

\* ms holds one move for each line of ls, and nothing else
OneMoveEach(ls, ms) ==
    /\ Cardinality(ms) = Cardinality(ls)
    /\ \A l \in ls : \E m \in ms : MoveOf(l, m)
    /\ \A m \in ms : \E l \in ls : MoveOf(l, m)

\* C6, as claimed: a validate that succeeds leaves the inventory done, with
\* exactly one move per line whose counted quantity is not its theoretical one
\* (earlier moves gone), every move posted.
C6_AsClaimed ==
    [][\A i \in DOMAIN inventories :
          (ManagerValidates(i) /\ last'.res = "done") =>
              /\ StateOf(i)' = "done"
              /\ OneMoveEach({l \in lines : l.inventory_id = i
                                            /\ l.product_qty # l.theoretical_qty},
                             {m \in moves' : m.inventory_id = i})
              /\ \A m \in moves' : m.inventory_id = i => m.state = "done"]_vars

\* C6, amended: a validate that succeeds leaves the inventory done, with exactly
\* one move per line whose counted quantity differs from its theoretical one by
\* half the unit's rounding or more (a smaller difference gives no move; earlier
\* moves are gone), every move posted.
C6_ValidatePosts ==
    [][\A i \in DOMAIN inventories :
          (ManagerValidates(i) /\ last'.res = "done") =>
              /\ StateOf(i)' = "done"
              /\ OneMoveEach({l \in lines : l.inventory_id = i /\ BeyondRounding(l)},
                             {m \in moves' : m.inventory_id = i})
              /\ \A m \in moves' : m.inventory_id = i => m.state = "done"]_vars

\* C6 witness: an inventory is done with two lines, one counted a unit less than
\* theoretical and one a unit more, and exactly their two moves, posted.
C6_Witness ==
    /\ last.op = "action_validate" /\ last.res = "done"
    /\ StateOf(last.inv) = "done"
    /\ \E a \in lines, b \in lines, m \in moves, n \in moves :
           /\ a.inventory_id = last.inv /\ b.inventory_id = last.inv
           /\ a.theoretical_qty - a.product_qty = One
           /\ b.product_qty - b.theoretical_qty = One
           /\ MoveOf(a, m) /\ MoveOf(b, n) /\ m.state = "done" /\ n.state = "done"
           /\ m.location_dest_id = Virtual /\ n.location_id = Virtual
    /\ Cardinality({m \in moves : m.inventory_id = last.inv}) = 2

\* the moves _generate_moves makes of the one line l
Generated(l) == _generate_moves(<<l>>)

\* C7, as claimed: _generate_moves gives no move for a line counted as
\* theoretical and exactly one otherwise, of the difference, from the virtual
\* location when more was counted and to it when less; the quantity is positive.
C7_AsClaimed ==
    \A l \in lines :
        IF l.product_qty = l.theoretical_qty
        THEN Generated(l) = <<>>
        ELSE Len(Generated(l)) = 1 /\ MoveOf(l, Generated(l)[1])

\* C7, amended: _generate_moves gives no move for a line whose counted and
\* theoretical quantities differ by less than half the unit's rounding, and
\* exactly one otherwise, of the difference, from the virtual location to the
\* line's when more was counted and from the line's to the virtual one when
\* less; the quantity is positive.  A set of lines gives one move per such line.
C7_GenerateMoves ==
    /\ \A l \in lines :
           IF ~BeyondRounding(l)
           THEN Generated(l) = <<>>
           ELSE Len(Generated(l)) = 1 /\ MoveOf(l, Generated(l)[1])
    /\ \A i \in DOMAIN inventories :
           Len(_generate_moves(SetToSeq({l \in lines : l.inventory_id = i})))
               = Cardinality({l \in lines : l.inventory_id = i /\ BeyondRounding(l)})

\* C7 witness: action_check has run over a line counted more than theoretical,
\* whose move comes from the virtual location, and a line counted less, whose
\* move goes to it.
C7_Witness ==
    /\ last.op = "action_check"
    /\ \E a \in lines, b \in lines, m \in moves, n \in moves :
           /\ a.product_qty > a.theoretical_qty /\ BeyondRounding(a)
           /\ b.product_qty < b.theoretical_qty /\ BeyondRounding(b)
           /\ MoveOf(a, m) /\ m.location_id = Virtual
           /\ MoveOf(b, n) /\ n.location_dest_id = Virtual

\* start has just generated the lines of last.inv
JustStarted ==
    /\ last.op = "action_start" /\ last.res = "generated"
    /\ inventories[last.inv].prefill_counted_quantity = "counted"

\* C8: with the default prefill, action_check right after the start that
\* generated the lines computes no move, whatever the ledger holds.
C8_NoMoveAfterStart ==
    JustStarted => \A m \in action_check(last.inv) : m.inventory_id # last.inv

\* C8 witness: start has generated two lines, one of them of negative quantity.
C8_Witness ==
    /\ JustStarted
    /\ \E a \in lines, b \in lines :
           /\ a.id # b.id /\ a.inventory_id = last.inv /\ b.inventory_id = last.inv
           /\ a.theoretical_qty < 0 /\ b.theoretical_qty > 0

\* C9: action_check called again on a confirm-state inventory whose lines were
\* not edited since gives the same moves as the call before: as many, of the
\* same content; the moves of the first call are gone.
C9_CheckTwice ==
    (last.op = "action_check" /\ StateOf(last.inv) = "confirm") =>
        LET first == {m \in moves : m.inventory_id = last.inv}
            second == {m \in action_check(last.inv) : m.inventory_id = last.inv}
        IN /\ Cardinality(second) = Cardinality(first)
           /\ {Content(m) : m \in second} = {Content(m) : m \in first}

\* C9 witness: action_check has computed two moves for a confirm-state inventory.
C9_Witness ==
    /\ last.op = "action_check" /\ StateOf(last.inv) = "confirm"
    /\ Cardinality({m \in moves : m.inventory_id = last.inv}) = 2

\* the product and location pairs the inventory of i covers without a quantity
\* in its snapshot, which become lines of theoretical quantity 0 when exhausted
\* products are asked for
ExhaustedPairs(i) ==
    IF ~inventories[i].exhausted THEN {}
    ELSE {pl \in (IF inventories[i].product_ids # {} THEN inventories[i].product_ids
                  ELSE {p \in Products : active[p]})
                 \X (IF inventories[i].location_ids # {} THEN inventories[i].location_ids
                     ELSE lot_stock_id[inventories[i].company_id]) :
             \A k \in DOMAIN _get_quantities(i) :
                 <<k.product_id, k.location_id>> # pl}

\* the lines ls are those of the snapshot of i: one per key, of its quantity,
\* and one of quantity 0 per exhausted pair
FromSnapshot(ls, i) ==
    /\ {<<LineKey(l), l.theoretical_qty>> : l \in ls}
           = {<<k, _get_quantities(i)[k]>> : k \in DOMAIN _get_quantities(i)}
             \cup {<<Key(pl[1], pl[2], False, False, False), 0>> : pl \in ExhaustedPairs(i)}
    /\ Cardinality(ls) = Cardinality(DOMAIN _get_quantities(i))
                         + Cardinality(ExhaustedPairs(i))
    /\ \A l \in ls : l.inventory_id = i

\* C10: start on a draft inventory puts it in confirm, and creates the lines of
\* the quantity snapshot if and only if the inventory has no line and
\* start_empty is not set; otherwise it adds no line and leaves the lines alone.
C10_Start ==
    [][\A i \in DOMAIN inventories :
          (last'.op = "action_start" /\ last'.inv = i /\ StateOf(i) = "draft") =>
              /\ StateOf(i)' = "confirm"
              /\ lines \subseteq lines'
              /\ IF (\A l \in lines : l.inventory_id # i) /\ ~inventories[i].start_empty
                 THEN FromSnapshot(lines' \ lines, i)
                 ELSE lines' = lines]_vars

\* C10 witness: start has confirmed an inventory that is not start_empty and
\* kept the one line it had, though the snapshot has a quantity to offer.
C10_Witness ==
    /\ last.op = "action_start" /\ last.res = "confirmed"
    /\ ~inventories[last.inv].start_empty
    /\ Cardinality({l \in lines : l.inventory_id = last.inv}) = 1
    /\ DOMAIN _get_quantities(last.inv) # {}

\* C11: after action_cancel_draft the inventory is in draft, has no line left,
\* and every move it had is still there, cancelled: all of them, whatever state
\* the inventory and the moves were in; the lines and moves of other
\* inventories are as before.
C11_CancelDraftWhole ==
    [][\A i \in DOMAIN inventories :
          (last'.op = "action_cancel_draft" /\ last'.inv = i) =>
              /\ StateOf(i)' = "draft"
              /\ \A l \in lines' : l.inventory_id # i
              /\ \A l \in lines : l.inventory_id # i => l \in lines'
              /\ \A m \in moves : m.inventory_id = i =>
                     \E c \in moves' : /\ c.state = "cancel"
                                       /\ [c EXCEPT !.state = m.state] = m
              /\ \A c \in moves' : c.inventory_id = i =>
                     /\ c.state = "cancel"
                     /\ \E m \in moves : m.id = c.id
              /\ Cardinality(moves') = Cardinality(moves)]_vars

\* C11 witness: action_cancel_draft has taken a confirm-state inventory with two
\* computed moves back to draft: no line is left and both moves are cancelled.
C11_Witness ==
    /\ last.op = "action_cancel_draft" /\ last.arg = "confirm"
    /\ StateOf(last.inv) = "draft"
    /\ \A l \in lines : l.inventory_id # last.inv
    /\ Cardinality({m \in moves : m.inventory_id = last.inv /\ m.state = "cancel"}) = 2
    /\ \A m \in moves : m.inventory_id = last.inv => m.state = "cancel"

\* the detector has just run, or runs in this step
DetectorRan == last.op = "_run_conflict_inventory_tasks"

\* the run recorded in `last` was for company c, or for every company
RanFor(c) == last.arg.company_id \in {False, c}

\* location l lies below the view location of warehouse w
InWarehouse(l, w) == view_location_id[w] \in ancestors(l)

\* inventory i is a conflict inventory in state st with a location of warehouse w
ConflictOn(i, st, w) ==
    /\ inventories[i].is_conflict_inventory
    /\ inventories[i].state = st
    /\ \E l \in inventories[i].location_ids : InWarehouse(l, w)

\* the products with a negative quant in warehouse w
NegativeProducts(w) ==
    {q.product_id : q \in {r \in quants : r.quantity < 0 /\ InWarehouse(r.location_id, w)}}

\* the draft and in-progress conflict inventories, with their filters
ConflictInventories(invs) ==
    {<<i, invs[i]>> : i \in {j \in DOMAIN invs : /\ invs[j].is_conflict_inventory
                                                 /\ invs[j].state \in {"draft", "confirm"}}}

\* C12: the detector run again right after a run, for the same companies and on
\* the same ledger, creates no inventory: the table of inventories, and so the
\* draft and in-progress conflict inventories with their location, product and
\* lot filters, is what the first run left.
C12_RunTwice ==
    DetectorRan =>
        LET again == conflict_apply(inventories,
                                    conflict_plan(inventories, quants, last.arg.company_id),
                                    now)
        IN /\ DOMAIN again \subseteq DOMAIN inventories
           /\ ConflictInventories(again) = ConflictInventories(inventories)

\* C12 witness: a run has created two conflict inventories, one for negative
\* quantities and one for a duplicated serial number.
C12_Witness ==
    /\ DetectorRan
    /\ \E i \in last.arg.created, j \in last.arg.created :
           /\ inventories[i].lot_ids # {}
           /\ inventories[j].lot_ids = {} /\ inventories[j].location_ids # {}

\* the draft inventory the negative quantity check owes warehouse w in this
\* step: flagged, on the locations of w only, for exactly the products negative
\* in w; the draft that was there, updated, or a new one when there was none
OwedToWarehouse(w) ==
    \E i \in DOMAIN inventories' :
        /\ inventories'[i].state = "draft"
        /\ inventories'[i].is_conflict_inventory
        /\ inventories'[i].company_id = warehouse_company[w]
        /\ inventories'[i].location_ids # {}
        /\ \A l \in inventories'[i].location_ids : InWarehouse(l, w)
        /\ inventories'[i].product_ids = NegativeProducts(w)
        /\ IF \E j \in DOMAIN inventories : ConflictOn(j, "draft", w)
           THEN i \in last'.arg.updated /\ i \in DOMAIN inventories
                /\ ConflictOn(i, "draft", w)
           ELSE i \in last'.arg.created /\ i \notin DOMAIN inventories

\* C13, as claimed: after a detector run, every warehouse with a negative quant
\* and no in-progress conflict inventory on it has its draft conflict inventory.
C13_AsClaimed ==
    [][DetectorRan' =>
          \A w \in Warehouses :
              (/\ NegativeProducts(w) # {}
               /\ \A j \in DOMAIN inventories : ~ConflictOn(j, "confirm", w))
                  => OwedToWarehouse(w)]_vars

\* C13, amended: after a detector run, every warehouse of a company the run was
\* for (every company, or the one it was triggered for) with a negative quant
\* and no in-progress conflict inventory on it has a draft conflict inventory
\* on its locations whose product filter is exactly the products negative in
\* it: created when there was none, the existing draft updated otherwise.
C13_NegativeInventory ==
    [][DetectorRan' =>
          \A w \in Warehouses :
              (/\ RanFor(warehouse_company[w])'
               /\ NegativeProducts(w) # {}
               /\ \A j \in DOMAIN inventories : ~ConflictOn(j, "confirm", w))
                  => OwedToWarehouse(w)]_vars

\* C13 witness: a run has updated the draft of warehouse W1, which now asks for
\* the two products negative there.
C13_Witness ==
    /\ DetectorRan
    /\ \E i \in last.arg.updated :
           /\ i \in DOMAIN inventories
           /\ ConflictOn(i, "draft", "W1")
           /\ inventories[i].product_ids = {"pN", "pS"}
           /\ NegativeProducts("W1") = {"pN", "pS"}

\* C14: a detector run that finds an in-progress conflict inventory of the
\* company on a location of warehouse w creates no conflict inventory on w and
\* writes on none, whatever negative quants w holds, at every run; the run ends
\* normally.
C14_InProgressSkipped ==
    [][DetectorRan' =>
          \A w \in Warehouses :
              (\E j \in DOMAIN inventories :
                   /\ ConflictOn(j, "confirm", w)
                   /\ inventories[j].company_id = warehouse_company[w])
                  => /\ last'.res = "ok"
                     /\ \A i \in last'.arg.created :
                            \A l \in inventories'[i].location_ids : ~InWarehouse(l, w)
                     /\ \A i \in last'.arg.updated :
                            \A l \in inventories[i].location_ids : ~InWarehouse(l, w)
                     /\ \A i \in DOMAIN inventories \cap DOMAIN inventories' :
                            ConflictOn(i, "confirm", w) => inventories'[i] = inventories[i]]_vars

\* C14 witness: a run for every company has left warehouse W1 alone: its
\* conflict inventory is in progress for one product while two are negative.
C14_Witness ==
    /\ DetectorRan /\ last.arg.company_id = False
    /\ last.arg.created = {} /\ last.arg.updated = {}
    /\ NegativeProducts("W1") = {"pN", "pS"}
    /\ \E j \in DOMAIN inventories :
           ConflictOn(j, "confirm", "W1") /\ inventories[j].product_ids = {"pN"}
    /\ \A j \in DOMAIN inventories : ~ConflictOn(j, "draft", "W1")

\* C15: after a detector run, every draft conflict inventory of a company the
\* run was for was created or updated by that run; a draft conflict inventory
\* that was there before and was not updated is deleted, with its lines.
C15_ObsoleteDeleted ==
    [][DetectorRan' =>
          /\ \A i \in DOMAIN inventories' :
                 (/\ inventories'[i].is_conflict_inventory
                  /\ inventories'[i].state = "draft"
                  /\ last'.arg.company_id \in {False, inventories'[i].company_id})
                     => i \in last'.arg.created \cup last'.arg.updated
          /\ \A i \in DOMAIN inventories :
                 (/\ inventories[i].is_conflict_inventory
                  /\ inventories[i].state = "draft"
                  /\ last'.arg.company_id \in {False, inventories[i].company_id}
                  /\ i \notin last'.arg.updated)
                     => /\ i \notin DOMAIN inventories' \/ i \in last'.arg.created
                        /\ i \in last'.arg.unlinked
                        /\ \A l \in lines' : l.inventory_id # i
          /\ \A i \in DOMAIN inventories :
                 ~(inventories[i].is_conflict_inventory /\ inventories[i].state = "draft")
                     => i \in DOMAIN inventories' /\ i \notin last'.arg.unlinked]_vars

\* C15 witness: a run has deleted a draft conflict inventory and kept another,
\* updated.
C15_Witness ==
    /\ DetectorRan
    /\ last.arg.unlinked # {}
    /\ \E i \in last.arg.updated : i \in DOMAIN inventories /\ i \notin last.arg.unlinked

\* the quants of company c that hold serial number lot of serial product p
SerialQuants(c, lot, p) ==
    {q \in quants : /\ q.lot_id = lot /\ q.product_id = p
                    /\ company[q.location_id] = c
                    /\ usage[q.location_id] \in {"internal", "transit"}
                    /\ q.quantity # 0}

\* the serial numbers company c holds in more than one quant, with their product
Duplicated(c) ==
    {lp \in Lots \X {p \in Products : tracking[p] = "serial"} :
        Cardinality(SerialQuants(c, lp[1], lp[2])) > 1}

\* inventory i of the table invs is a duplicated-SN inventory of company c in
\* state st
SerialConflict(invs, i, st, c) ==
    /\ invs[i].is_conflict_inventory /\ invs[i].state = st
    /\ invs[i].lot_ids # {} /\ invs[i].company_id = c

\* the draft inventory the conflicting SN check owes company c in this step
OwedToCompany(c) ==
    \E i \in DOMAIN inventories' :
        /\ SerialConflict(inventories', i, "draft", c)
        /\ inventories'[i].lot_ids = {lp[1] : lp \in Duplicated(c)}
        /\ inventories'[i].product_ids = {lp[2] : lp \in Duplicated(c)}
        /\ IF \E j \in DOMAIN inventories : SerialConflict(inventories, j, "draft", c)
           THEN i \in last'.arg.updated /\ i \in DOMAIN inventories
                /\ SerialConflict(inventories, i, "draft", c)
           ELSE i \in last'.arg.created /\ i \notin DOMAIN inventories

\* the run of this step leaves the duplicated-SN inventories of company c alone
SerialSkipped(c) ==
    /\ \A i \in last'.arg.created : ~SerialConflict(inventories', i, "draft", c)
    /\ \A i \in last'.arg.updated : ~SerialConflict(inventories, i, "draft", c)
    /\ \A i \in DOMAIN inventories :
           SerialConflict(inventories, i, "confirm", c) =>
               i \in DOMAIN inventories' /\ inventories'[i] = inventories[i]

\* C19, as claimed: for each company with a serial number in more than one
\* non-zero quant, a detector run skips the company if it has an in-progress
\* conflict inventory with a lot filter, and otherwise leaves a draft conflict
\* inventory whose lot filter is the duplicated lots and whose product filter
\* is their products.
C19_AsClaimed ==
    [][DetectorRan' =>
          \A c \in Companies :
              Duplicated(c) # {} =>
                  IF \E j \in DOMAIN inventories : SerialConflict(inventories, j, "confirm", c)
                  THEN SerialSkipped(c)
                  ELSE OwedToCompany(c)]_vars

\* C19, amended: the same for each company the run was for (every company, or
\* the one it was triggered for): skipped when it has an in-progress conflict
\* inventory with a lot filter; otherwise a draft conflict inventory of the
\* company has exactly the duplicated lots as lot filter and exactly their
\* products as product filter, the existing draft updated or, when there was
\* none, a new one created.
C19_DuplicatedSerials ==
    [][DetectorRan' =>
          \A c \in Companies :
              (RanFor(c)' /\ Duplicated(c) # {}) =>
                  IF \E j \in DOMAIN inventories : SerialConflict(inventories, j, "confirm", c)
                  THEN SerialSkipped(c)
                  ELSE OwedToCompany(c)]_vars

\* C19 witness: company c1 holds lot1 twice; an earlier run created its
\* inventory with lot filter lot1 and product filter pS, which was then started,
\* and the run that just ended for c1 skipped the company.
C19_Witness ==
    /\ DetectorRan /\ last.arg.company_id = "c1"
    /\ Duplicated("c1") = {<<"lot1", "pS">>}
    /\ last.arg.created = {} /\ last.arg.updated = {}
    /\ \E j \in DOMAIN inventories :
           /\ SerialConflict(inventories, j, "confirm", "c1")
           /\ inventories[j].lot_ids = {"lot1"} /\ inventories[j].product_ids = {"pS"}

\* the quants inventory i looks at: of its company and locations, of its
\* products and lots when it names some, negative for a conflict inventory
\* without lots and not zero otherwise
InScope(i, q) ==
    /\ company[q.location_id] = inventories[i].company_id
    /\ IF inventories[i].location_ids # {}
       THEN q.location_id \in inventories[i].location_ids
            \/ ancestors(q.location_id) \cap inventories[i].location_ids # {}
       ELSE usage[q.location_id] \in {"internal", "transit"}
    /\ (inventories[i].prefill_counted_quantity = "zero" => active[q.product_id])
    /\ (inventories[i].product_ids # {} => q.product_id \in inventories[i].product_ids)
    /\ (inventories[i].lot_ids # {} => q.lot_id \in inventories[i].lot_ids)
    /\ IF inventories[i].is_conflict_inventory /\ inventories[i].lot_ids = {}
       THEN q.quantity < 0 ELSE q.quantity # 0

\* the key of quant q
KeyOf(q) == <<q.product_id, q.location_id, q.lot_id, q.package_id, q.owner_id>>

\* the entries of _get_quantities(i) as (key, quantity) pairs
Entries(i) ==
    {<<<<k.product_id, k.location_id, k.prod_lot_id, k.package_id, k.partner_id>>,
       _get_quantities(i)[k]>> : k \in DOMAIN _get_quantities(i)}

\* C20: _get_quantities returns one entry per distinct key among the in-scope
\* quants, valued with the sum of the key's quantities, and no entry for a key
\* whose quants sum to zero, several quants sharing a key included.
C20_AsClaimed ==
    \A i \in DOMAIN inventories :
        /\ Entries(i) = {<<KeyOf(q), SumQuantity({r \in quants : InScope(i, r) /\ KeyOf(r) = KeyOf(q)})>> :
                            q \in {r \in quants : InScope(i, r)}}
        /\ Cardinality(Entries(i)) = Cardinality({KeyOf(q) : q \in {r \in quants : InScope(i, r)}})
        /\ \A e \in Entries(i) : e[2] # 0

\* the cyclic-count run has just ended, or ends in this step
CyclicRan == last.op = "_run_inventory_tasks"

\* the next inventory date of location l has come
Due(l) == l \in DOMAIN next_inventory_date /\ next_inventory_date[l] <= now

\* inventory i of the table invs is an inventory of location l alone, without
\* product filter
CyclicOf(invs, i, l) == invs[i].location_ids = {l} /\ invs[i].product_ids = {}

\* the inventories of location l alone that the run of this step created
CreatedFor(l) ==
    {i \in last'.arg.cyclic_created :
        i \in DOMAIN inventories' /\ CyclicOf(inventories', i, l)}

\* C17: in a cyclic-count run, a due location with a due ancestor, at any
\* depth, gets no new inventory; the ancestor wins: after the run a due
\* ancestor has an open inventory of its own.
C17_AncestorWins ==
    [][CyclicRan' =>
          \A l \in Locations :
              (Due(l) /\ RanFor(company[l])' /\ \E a \in ancestors(l) : Due(a)) =>
                  /\ CreatedFor(l) = {}
                  /\ \A i \in last'.arg.cyclic_created : l \notin inventories'[i].location_ids
                  /\ \E a \in ancestors(l), i \in DOMAIN inventories' :
                         /\ Due(a)
                         /\ CyclicOf(inventories', i, a)
                         /\ inventories'[i].state \in {"draft", "confirm"}]_vars

\* C17 witness: the warehouse WH and the shelf B1, two levels below, are due and
\* S1 between them is not; the run has created one inventory, for WH.
C17_Witness ==
    /\ CyclicRan
    /\ Due("WH") /\ Due("B1") /\ ~Due("S1")
    /\ \E i \in DOMAIN inventories :
           /\ last.arg.cyclic_created = {i}
           /\ CyclicOf(inventories, i, "WH")

\* the run of this step selects location l: due, of a company the run is for,
\* below no due location
Selected(l) ==
    /\ Due(l) /\ RanFor(company[l])'
    /\ \A a \in ancestors(l) : ~Due(a)

\* location l has an inventory of its own in progress, or in draft and created
\* today
HasCurrent(l) ==
    \E i \in DOMAIN inventories :
        /\ CyclicOf(inventories, i, l)
        /\ \/ inventories[i].state = "confirm"
           \/ inventories[i].state = "draft" /\ inventories[i].create_date >= now

\* the run of this step creates exactly one inventory of its own for each
\* selected location that has no current one, none for the others, and
\* nothing else
OnePerLocation ==
    CyclicRan' =>
        /\ \A l \in Locations :
               Selected(l) =>
                   /\ Cardinality(CreatedFor(l)) = (IF HasCurrent(l) THEN 0 ELSE 1)
                   /\ \A i \in CreatedFor(l) :
                          /\ inventories'[i].state = "draft"
                          /\ inventories'[i].company_id = company[l]
                          /\ inventories'[i].create_date = now
        /\ \A i \in last'.arg.cyclic_created :
               \E l \in Locations : Selected(l) /\ i \in CreatedFor(l)

\* after a run, a second run on the same day over the unchanged store would
\* create and delete no cyclic inventory, and each selected location has
\* exactly one open inventory of its own
SecondRunIdle ==
    CyclicRan =>
        /\ location_vals(inventories, last.arg.company_id, now) = <<>>
        /\ invs_to_unlink(inventories, last.arg.company_id, now) = {}
        /\ \A l \in Locations :
               (Due(l) /\ RanFor(company[l]) /\ \A a \in ancestors(l) : ~Due(a)) =>
                   Cardinality({i \in DOMAIN inventories :
                                   /\ CyclicOf(inventories, i, l)
                                   /\ inventories[i].state \in {"draft", "confirm"}}) = 1

OpenConflicts(w) ==
    {i \in DOMAIN inventories :
        /\ inventories[i].is_conflict_inventory
        /\ inventories[i].state \in {"draft", "confirm"}
        /\ \E l \in inventories[i].location_ids : InWarehouse(l, w)}

\* C16: detector runs executing concurrently against the same warehouse, their
\* reads of the existing conflict inventories and their creations interleaved,
\* do not create duplicate conflict inventories for that warehouse.
C16_AsClaimed ==
    \A w \in Warehouses : Cardinality(OpenConflicts(w)) <= 1

\* this step is action_cancel_draft called on inventory i
CancelsDraft(i) == last'.op = "action_cancel_draft" /\ last'.inv = i /\ last' # last

\* C21, as claimed: once an inventory is done, no operation of the module,
\* cancelDraft among them, changes or deletes any of its lines.
C21_AsClaimed ==
    [][\A i \in DOMAIN inventories :
           inventories[i].state = "done" =>
               /\ i \in DOMAIN inventories'
               /\ line_ids(i)' = line_ids(i)]_vars

\* C21, amended: once an inventory is done, refresh, reset, check, start,
\* validate and the scheduler's runs leave its lines as they are, their counted
\* and theoretical quantities and their existence; action_cancel_draft, which
\* has no state guard, deletes them all and takes the inventory back to draft.
C21_DoneLinesKept ==
    [][\A i \in DOMAIN inventories :
           inventories[i].state = "done" =>
               /\ i \in DOMAIN inventories'
               /\ IF CancelsDraft(i)
                  THEN line_ids(i)' = {} /\ inventories'[i].state = "draft"
                  ELSE line_ids(i)' = line_ids(i) /\ inventories'[i].state = "done"]_vars

\* C21 witness: the counted quantities of the lines of a validated inventory,
\* one of them not zero, have just been asked to be set to zero.
C21_Witness ==
    /\ last.op = "action_reset_product_qty"
    /\ \E l \in lines : /\ l.id \in last.arg
                        /\ inventories[l.inventory_id].state = "done"
                        /\ l.product_qty # 0

\* C25: start on an inventory that is not in draft is a silent no-op: it raises
\* no error and leaves the inventory's state, date, lines and moves unchanged.
C25_StartNoOp ==
    [][(last'.op = "action_start" /\ inventories[last'.inv].state # "draft") =>
          /\ last'.res = "skipped"
          /\ UNCHANGED <<inventories, lines, moves>>]_vars

\* C25 witness: start has just been called on a validated inventory that has
\* lines and moves.
C25_Witness ==
    /\ last.op = "action_start" /\ last.res = "skipped"
    /\ inventories[last.inv].state = "done"
    /\ line_ids(last.inv) # {}
    /\ move_ids(last.inv) # {}

\* the live ledger quantity of the exact key of line l
LiveQty(l) ==
    SumQuantity({q \in quants : KeyOf(q) = <<l.product_id, l.location_id, l.prod_lot_id,
                                              l.package_id, l.partner_id>>})

\* the quantity of the key of line l as its inventory's snapshot sees it
SnapshotQty(l) ==
    SumQuantity({q \in quants : /\ InScope(l.inventory_id, q)
                                /\ KeyOf(q) = <<l.product_id, l.location_id, l.prod_lot_id,
                                                l.package_id, l.partner_id>>})

\* line l is flagged outdated
Flagged(l) ==
    /\ inventories[l.inventory_id].state # "done"
    /\ float_compare(SnapshotQty(l), l.theoretical_qty) # 0

\* C22: action_refresh_quantity never changes a counted quantity; it changes the
\* theoretical quantity only of the lines it is called on that are flagged
\* outdated and whose inventory is not done, setting it to the live ledger
\* quantity of the line's exact key (0 without quant), and leaves every other
\* line untouched.
C22_Refresh ==
    [][last'.op = "action_refresh_quantity" =>
          /\ {m.id : m \in lines'} = {l.id : l \in lines}
          /\ \A l \in lines :
                 IF l.id \in last'.arg /\ Flagged(l)
                 THEN [l EXCEPT !.theoretical_qty = LiveQty(l)] \in lines'
                 ELSE l \in lines']_vars

\* C22 witness: a line prefilled with its theoretical quantity has been
\* refreshed: the theoretical quantity is the live one, the counted quantity is
\* still the old one.
C22_Witness ==
    /\ last.op = "action_refresh_quantity"
    /\ \E l \in lines :
           /\ l.id \in last.arg
           /\ inventories[l.inventory_id].state = "confirm"
           /\ inventories[l.inventory_id].prefill_counted_quantity = "counted"
           /\ l.theoretical_qty = LiveQty(l)
           /\ l.product_qty # l.theoretical_qty

\* C28: right after action_refresh_quantity on a line of a draft or in-progress
\* inventory, the ledger being as it was, the line is no longer flagged
\* outdated: the quantity refresh stores equals the quantity the flag compares
\* against, for every inventory configuration.
C28_AsClaimed ==
    last.op = "action_refresh_quantity" =>
        \A l \in lines :
            (l.id \in last.arg /\ inventories[l.inventory_id].state \in {"draft", "confirm"})
                => ~Flagged(l)

\* start has just populated the lines of an inventory and none is flagged
FreshAfterStart ==
    (last.op = "action_start" /\ last.res = "generated") =>
        \A l \in lines : l.inventory_id = last.inv => ~Flagged(l)

\* a line that gets flagged in this step does so on a change of the ledger
\* quantity of its key as the inventory's snapshot sees it
FlaggedByLedger ==
    \A l \in lines, m \in lines' :
        (m.id = l.id /\ ~Flagged(l) /\ Flagged(m)') => SnapshotQty(l)' # SnapshotQty(l)

\* C29: right after start has populated an inventory's lines from the snapshot,
\* exhausted zero-quantity lines included, no line of the inventory is flagged
\* outdated; a line becomes outdated only after the ledger quantity of its key,
\* as seen by the inventory's snapshot, has changed.
C29_FreshThenLedger == [][FreshAfterStart' /\ FlaggedByLedger]_vars

\* C29 witness: start has populated an inventory that includes exhausted
\* products, with a line from the ledger and a zero-quantity line.
C29_Witness ==
    /\ last.op = "action_start" /\ last.res = "generated"
    /\ inventories[last.inv].exhausted
    /\ \E l \in line_ids(last.inv) : l.theoretical_qty # 0
    /\ \E l \in line_ids(last.inv) : l.theoretical_qty = 0 /\ LiveQty(l) = 0

\* the onchange has just answered and the line is saved
Changed == last.op = "_onchange_quantity_context" /\ last.res = "ok"

\* the live ledger quantity of the key of record r
LiveOf(r) ==
    SumQuantity({q \in quants : KeyOf(q) = <<r.product_id, r.location_id, r.prod_lot_id,
                                              r.package_id, r.partner_id>>})

\* C23, as claimed: on a change of product, location, lot, package or owner the
\* theoretical quantity is always replaced by the live quantity of the new key,
\* and the counted quantity by that new theoretical value only if counted
\* equalled the previous theoretical value; a counted quantity that differs is
\* left as it is.
C23_AsClaimed ==
    Changed =>
        /\ last.arg.saved.theoretical_qty = LiveOf(last.arg.saved)
        /\ last.arg.saved.product_qty =
               (IF last.arg.entered.product_qty = last.arg.entered.theoretical_qty
                THEN last.arg.saved.theoretical_qty
                ELSE last.arg.entered.product_qty)

\* C23, amended: the theoretical quantity is always replaced by the live
\* quantity of the key as entered, the lot as entered even when the onchange
\* then takes it off the line (product not tracked); the counted quantity is
\* set to one unit when a serial number stays on a serial-tracked product, and
\* otherwise replaced by the new theoretical value only if it equalled the
\* previous theoretical value at the unit's rounding, and left as it is if not.
C23_Onchange ==
    Changed =>
        /\ last.arg.saved.theoretical_qty = LiveOf(last.arg.entered)
        /\ last.arg.saved.prod_lot_id =
               (IF tracking[last.arg.entered.product_id] = "none"
                THEN False ELSE last.arg.entered.prod_lot_id)
        /\ last.arg.saved.product_qty =
               (IF /\ last.arg.saved.prod_lot_id # False
                   /\ tracking[last.arg.saved.product_id] = "serial"
                THEN One
                ELSE IF float_compare(last.arg.entered.product_qty,
                                      last.arg.entered.theoretical_qty) = 0
                THEN last.arg.saved.theoretical_qty
                ELSE last.arg.entered.product_qty)
        /\ last.arg.saved \in lines

\* C23 witness: a line counted by hand, its count differing from the
\* theoretical quantity, was given another key without serial number: the count
\* is kept and the theoretical quantity is the new key's.
C23_Witness ==
    /\ Changed
    /\ last.arg.saved.prod_lot_id = False
    /\ float_compare(last.arg.entered.product_qty, last.arg.entered.theoretical_qty) # 0
    /\ last.arg.saved.product_qty = last.arg.entered.product_qty
    /\ last.arg.saved.theoretical_qty # last.arg.entered.theoretical_qty

\* C24: on a line of a serial-tracked product with a serial number attached, the
\* onchange forces the counted quantity to 1 when it is not zero; a counted
\* quantity of 0 is not forced to 1: it stays, or follows the theoretical
\* quantity when it equalled the previous one.
C24_AsClaimed ==
    (/\ Changed
     /\ tracking[last.arg.saved.product_id] = "serial"
     /\ last.arg.saved.prod_lot_id # False) =>
        IF last.arg.entered.product_qty # 0
        THEN last.arg.saved.product_qty = One
        ELSE last.arg.saved.product_qty =
                 (IF float_compare(0, last.arg.entered.theoretical_qty) = 0
                  THEN last.arg.saved.theoretical_qty
                  ELSE 0)

\* inventory i, as it is before the run of this step, is stale for the run: a
\* draft of one location without product filter, the location lying below a
\* selected location, or being selected itself with the draft created before
\* today
Stale(i) ==
    /\ inventories[i].state = "draft"
    /\ inventories[i].product_ids = {}
    /\ \E l \in Locations :
           /\ inventories[i].location_ids = {l}
           /\ \/ \E a \in ancestors(l) : Selected(a)
              \/ Selected(l) /\ inventories[i].create_date < now

\* C26: a cyclic-count run deletes an existing inventory only if it is in
\* draft, has no product filter and exactly one location, and that location is
\* a descendant of a location selected in this run, or is itself selected while
\* the inventory was created before today; inventories with more than one
\* location, with a product filter, or not in draft are never deleted by the
\* cyclic part.
C26_StaleOnly ==
    [][CyclicRan' =>
          /\ \A i \in last'.arg.cyclic_unlinked : i \in DOMAIN inventories /\ Stale(i)
          /\ \A i \in DOMAIN inventories :
                 (\/ Cardinality(inventories[i].location_ids) > 1
                  \/ inventories[i].product_ids # {}
                  \/ inventories[i].state # "draft") =>
                     /\ i \notin last'.arg.cyclic_unlinked
                     /\ i \in last'.arg.unlinked \/ i \in DOMAIN inventories']_vars

\* C26 witness: the run has deleted the draft of S1, made by the run of the day
\* before, while the user's inventory of two locations, S1 and B1, is still
\* there.
C26_Witness ==
    /\ CyclicRan /\ now = 2
    /\ last.arg.cyclic_unlinked # {}
    /\ \E i \in DOMAIN inventories : inventories[i].location_ids = {"S1", "B1"}
    /\ \E i \in DOMAIN inventories : inventories[i].location_ids = {"WH"}

\* this step is the end of a complete detector run: the inventories and the
\* quants are still what the run read when it began
Complete ==
    /\ DetectorRan' /\ last'.res = "ok"
    /\ \E r \in Runners : /\ runs[r].at = "read" /\ runs'[r] = Idle
                          /\ runs[r].inventories = inventories
                          /\ runs[r].quants = quants

\* the draft conflict inventories on warehouse w before the step, and after it
DraftsOn(w) == {i \in DOMAIN inventories : ConflictOn(i, "draft", w)}

DraftsLeftOn(w) ==
    {i \in DOMAIN inventories' :
        /\ inventories'[i].is_conflict_inventory
        /\ inventories'[i].state = "draft"
        /\ \E l \in inventories'[i].location_ids : InWarehouse(l, w)}

\* inventory i comes before inventory j in the order of the model: the latest
\* date, then the highest id
Earlier(i, j) ==
    \/ inventories[i].date > inventories[j].date
    \/ inventories[i].date = inventories[j].date /\ i > j

\* C30, as claimed: after any complete detector run, each warehouse is covered
\* by at most one draft negative-quantity conflict inventory.
C30_AsClaimed ==
    [][Complete => \A w \in Warehouses : Cardinality(DraftsLeftOn(w)) <= 1]_vars

\* C30, amended: after a complete detector run, each warehouse of a company the
\* run was for is covered by at most one draft negative-quantity conflict
\* inventory: of the drafts that covered it, the run updates at most the first,
\* which is then the one left, and deletes all the others.
C30_OneDraft ==
    [][Complete =>
          \A w \in Warehouses :
              RanFor(warehouse_company[w])' =>
                  /\ Cardinality(DraftsLeftOn(w)) <= 1
                  /\ \A i \in DraftsOn(w) :
                         IF i \in last'.arg.updated
                         THEN /\ \A j \in DraftsOn(w) \ {i} : Earlier(i, j)
                              /\ DraftsLeftOn(w) = {i}
                              /\ i \notin last'.arg.unlinked
                         ELSE /\ i \in last'.arg.unlinked
                              /\ i \notin DraftsLeftOn(w)]_vars

\* C30 witness: no run is under way, no serial number is in conflict, and the
\* last run has updated the one draft left on warehouse W1 and deleted another.
C30_Witness ==
    /\ DetectorRan /\ last.res = "ok"
    /\ \A r \in Runners : runs[r] = Idle
    /\ \A q \in quants : q.lot_id = False
    /\ \E i \in last.arg.updated :
           /\ {j \in DOMAIN inventories : ConflictOn(j, "draft", "W1")} = {i}
           /\ \E k \in last.arg.unlinked : k < i /\ k \notin DOMAIN inventories

\* warehouse w holds a negative quant
Negative(w) == NegativeProducts(w) # {}

\* a conflict inventory in progress covers warehouse w
ConfirmCovers(w) == \E j \in DOMAIN inventories : ConflictOn(j, "confirm", w)

\* a draft conflict inventory covers warehouse w
DraftCovers(w) == \E j \in DOMAIN inventories : ConflictOn(j, "draft", w)

\* a conflict inventory that covered warehouse w was validated
ValidatedOn(w) == \E j \in DOMAIN inventories : ConflictOn(j, "done", w)

\* the run of this step produces no draft conflict inventory on a warehouse
\* covered by a conflict inventory in progress: it creates none there and
\* updates none there
Deferred ==
    DetectorRan' =>
        \A w \in Warehouses :
            ConfirmCovers(w) =>
                /\ \A i \in last'.arg.created :
                       \A l \in inventories'[i].location_ids : ~InWarehouse(l, w)
                /\ \A i \in last'.arg.updated :
                       \A l \in inventories[i].location_ids : ~InWarehouse(l, w)

\* a warehouse left uncovered while negative gets its draft, or stops being
\* negative
UncoveredLeadsToDraft ==
    \A w \in Warehouses :
        (Negative(w) /\ ~ConfirmCovers(w)) ~> (DraftCovers(w) \/ ~Negative(w))

\* C27, as claimed: under repeated fair detector runs, when a warehouse keeps
\* holding negative quants and the conflict inventory in progress that covered
\* it has left confirm, the next detector run, whichever it is, leaves a draft
\* conflict inventory for that warehouse; while the inventory stays in confirm
\* no run produces one.
C27_AsClaimed ==
    /\ [][(DetectorRan' /\ last'.res = "ok") =>
             \A w \in Warehouses :
                 (/\ Negative(w) /\ ~ConfirmCovers(w)
                  /\ ValidatedOn(w) \/ DraftCovers(w))
                     => DraftsLeftOn(w) # {}]_vars
    /\ UncoveredLeadsToDraft
    /\ [][Deferred]_vars

\* C27, amended: under repeated fair scheduled runs, when a warehouse keeps
\* holding negative quants and the conflict inventory in progress that covered
\* it has left confirm, validated or reset to draft, the next detector run made
\* for every company or for the warehouse's company leaves a draft conflict
\* inventory for that warehouse, and such a run comes; while the inventory
\* stays in confirm no run produces one, for ever if it stays for ever.
C27_DeferredUntilLeft ==
    /\ [][(DetectorRan' /\ last'.res = "ok") =>
             \A w \in Warehouses :
                 (/\ RanFor(warehouse_company[w])'
                  /\ Negative(w) /\ ~ConfirmCovers(w)
                  /\ ValidatedOn(w) \/ DraftCovers(w))
                     => DraftsLeftOn(w) # {}]_vars
    /\ UncoveredLeadsToDraft
    /\ [][Deferred]_vars

\* C27 witness: the conflict inventory of warehouse W1 was validated, W1 is
\* still negative, and the run has created a new draft for it.
C27_Witness ==
    /\ DetectorRan /\ last.res = "ok"
    /\ Negative("W1") /\ ValidatedOn("W1")
    /\ \E i \in last.arg.created : i \in DOMAIN inventories /\ ConflictOn(i, "draft", "W1")

\* the run of this step leaves inventory i as it is: not unlinked, not
\* written, the same record with the same lines after the step
LeftAlone(i) ==
    /\ i \notin last'.arg.cyclic_unlinked \cup last'.arg.unlinked \cup last'.arg.updated
    /\ i \in DOMAIN inventories' /\ inventories'[i] = inventories[i]
    /\ {l \in lines' : l.inventory_id = i} = {l \in lines : l.inventory_id = i}

\* C31: no run of _run_inventory_tasks, by its cyclic part or by its conflict
\* part, deletes or modifies an inventory in state confirm, done or cancel, and
\* the conflict part deletes or modifies no inventory whose is_conflict_inventory
\* flag is false or whose company is outside the run's company scope.
C31_Frame ==
    [][CyclicRan' =>
          \A i \in DOMAIN inventories :
              /\ inventories[i].state \in {"confirm", "done", "cancel"} => LeftAlone(i)
              /\ (\/ ~inventories[i].is_conflict_inventory
                  \/ last'.arg.company_id \notin {False, inventories[i].company_id}) =>
                     /\ i \notin last'.arg.unlinked \cup last'.arg.updated
                     /\ i \notin last'.arg.cyclic_unlinked => LeftAlone(i)]_vars

\* C31 witness: a run made for company c2 has ended while company c1 has a
\* validated inventory, a conflict inventory in progress or cancelled, and a
\* draft without the conflict flag.
C31_Witness ==
    /\ CyclicRan /\ last.arg.company_id = "c2"
    /\ \E i \in DOMAIN inventories : inventories[i].state = "done"
    /\ \E i \in DOMAIN inventories :
           /\ inventories[i].is_conflict_inventory
           /\ inventories[i].state \in {"confirm", "cancel"}
    /\ \E i \in DOMAIN inventories :
           ~inventories[i].is_conflict_inventory /\ inventories[i].state = "draft"

====
